---- MODULE Spec2Model ----
EXTENDS Integers, Sequences, FiniteSets, TLC

(***************************************************************************)
(* Model of the Glyphy Board scheduling engine (src/scheduler.py, with the *)
(* second copy src/src/scheduler.py where the two differ) and of the       *)
(* document loaders of the web application                                 *)
(* (src/src/blueprints/schedules.py).                                      *)
(*                                                                         *)
(* Python dictionaries are functions whose DOMAIN is the set of keys that  *)
(* are present.  A datetime is a day ordinal in a small calendar that      *)
(* starts on Tuesday 2025-04-01, plus the second of that day.              *)
(***************************************************************************)

VARIABLES
    probe,          \* the matcher call under evaluation: function, arguments, returned value
    now,            \* datetime.now() read by find_active_schedule_item
    schedulesFile,  \* content of data/schedules.json
    itemsFile,      \* content of data/schedule-items.json
    scripts,        \* board names whose boards/<name>/<name>.py exists on disk
    pc,             \* position of the engine inside run_scheduler
    active_item,    \* what find_active_schedule_item produced
    primary,        \* the execute_board_script call of this run
    fallback,       \* the display_error call of this run
    trace,          \* run states entered so far, in order
    events,         \* calls made so far by the run: resolutions, child spawns, display_error
    backups,        \* content of data/schedules.json.backup and data/schedule-items.json.backup
    writer,         \* the save_schedules / save_schedule_items call that has a document open
    clock           \* datetime.now() of the web application, in milliseconds

vars == <<probe, now, schedulesFile, itemsFile, scripts, pc, active_item, primary, fallback,
          trace, events, backups, writer, clock>>

engineVars == <<now, schedulesFile, itemsFile, scripts, pc, active_item, primary, fallback,
                trace, events, backups, writer, clock>>

-----------------------------------------------------------------------------
(* Bounds of the model *)

MaxDay == 60

MaxSchedules == 2

MaxItems == 2

-----------------------------------------------------------------------------
(* Dictionaries *)

Has(d, k) == k \in DOMAIN d

Get(d, k, default) == IF k \in DOMAIN d THEN d[k] ELSE default

-----------------------------------------------------------------------------
(* Calendar: datetime.weekday(), datetime.day, datetime.time() *)

MonthLengths == <<30, 31, 30, 31>>   \* April, May, June, July 2025

RECURSIVE DayInMonth(_, _)
DayInMonth(ord, m) ==
    IF ord < MonthLengths[m] THEN ord + 1 ELSE DayInMonth(ord - MonthLengths[m], m + 1)

\* datetime.day: 1..31
day(dt) == DayInMonth(dt.ord, 1)

\* datetime.weekday(): Monday = 0 .. Sunday = 6; ordinal 0 is a Tuesday
weekday(dt) == (dt.ord + 1) % 7

\* position of a naive datetime on the time line, in seconds
Wall(dt) == dt.ord * (24 * 3600) + dt.sec

-----------------------------------------------------------------------------
(* ISO-8601 strings and datetime.fromisoformat                             *)
(* A string is [kind |-> "iso", ord, sec, zone] with zone "" (none), "Z"   *)
(* or "+hh:mm"; [kind |-> "bad"] is text that is not ISO-8601.             *)

\* str.replace('Z', '+00:00')
ReplaceZ(s) == IF s.kind = "iso" /\ s.zone = "Z" THEN [s EXCEPT !.zone = "+00:00"] ELSE s

\* utcoffset in seconds of a "+hh:mm" suffix
ZoneOffset(zone) ==
    CASE zone = "+00:00" -> 0
      [] zone = "+02:00" -> 2 * 3600
      [] zone = "-05:00" -> 0 - 5 * 3600
      [] OTHER -> 0

\* datetime.fromisoformat: ok = FALSE stands for ValueError
fromisoformat(s) ==
    IF s.kind # "iso" \/ s.zone = "Z"
    THEN [ok |-> FALSE]
    ELSE [ok |-> TRUE, ord |-> s.ord, sec |-> s.sec,
          aware |-> (s.zone # ""), off |-> ZoneOffset(s.zone)]

\* datetime.replace(tzinfo=None)
StripTz(dt) == [dt EXCEPT !.aware = FALSE, !.off = 0]

\* the UTC instant of an aware datetime, in seconds
Instant(dt) == Wall(dt) - dt.off

-----------------------------------------------------------------------------
(* "HH:MM" strings                                                         *)
(* [kind |-> "hm", h, m] is the text "<h>:<m>"; [kind |-> "bad"] is text   *)
(* without that shape.                                                     *)

\* datetime.strptime(s, '%H:%M').time(): ok = FALSE stands for ValueError
strptime(s) ==
    IF s.kind = "hm" /\ s.h \in 0..23 /\ s.m \in 0..59
    THEN [ok |-> TRUE, sec |-> s.h * 3600 + s.m * 60]
    ELSE [ok |-> FALSE]

\* map(int, s.split(':')) of the second copy: any two integers are accepted
SplitInts(s) ==
    IF s.kind = "hm" THEN [ok |-> TRUE, h |-> s.h, m |-> s.m] ELSE [ok |-> FALSE]

-----------------------------------------------------------------------------
(* TimeMatcher, src/scheduler.py *)

is_time_in_absolute_range_strict(current_time, start_datetime, end_datetime) ==
    LET start_dt == fromisoformat(ReplaceZ(start_datetime))
        end_dt == fromisoformat(ReplaceZ(end_datetime))
    IN  IF ~start_dt.ok \/ ~end_dt.ok
        THEN FALSE
        ELSE Wall(StripTz(start_dt)) < Wall(current_time)
             /\ Wall(current_time) <= Wall(StripTz(end_dt))

is_time_in_absolute_range(current_time, start_datetime, end_datetime) ==
    LET start_dt == fromisoformat(ReplaceZ(start_datetime))
        end_dt == fromisoformat(ReplaceZ(end_datetime))
    IN  IF ~start_dt.ok \/ ~end_dt.ok
        THEN FALSE
        ELSE Wall(StripTz(start_dt)) <= Wall(current_time)
             /\ Wall(current_time) <= Wall(StripTz(end_dt))

\* the clock-window test of is_time_in_relative_range, on seconds of the day
time_matches_and(start_time_obj, end_time_obj, current_time_obj) ==
    IF start_time_obj <= end_time_obj
    THEN start_time_obj <= current_time_obj /\ current_time_obj <= end_time_obj
    ELSE current_time_obj >= start_time_obj /\ current_time_obj <= end_time_obj

time_matches(start_time_obj, end_time_obj, current_time_obj) ==
    IF start_time_obj <= end_time_obj
    THEN start_time_obj <= current_time_obj /\ current_time_obj <= end_time_obj
    ELSE current_time_obj >= start_time_obj \/ current_time_obj <= end_time_obj

\* the pattern gate: daily / weekly / monthly
pattern_matches_sunday0(current_time, pattern_type, kwargs) ==
    CASE pattern_type = "daily" -> TRUE
      [] pattern_type = "weekly" ->
            weekday(current_time) = Get(kwargs, "weekly_day", 1) % 7
      [] pattern_type = "monthly" ->
            day(current_time) = Get(kwargs, "monthly_day", 1)
      [] OTHER -> FALSE

pattern_matches_clamped(current_time, pattern_type, kwargs) ==
    CASE pattern_type = "daily" -> TRUE
      [] pattern_type = "weekly" ->
            weekday(current_time) = (Get(kwargs, "weekly_day", 1) - 1) % 7
      [] pattern_type = "monthly" ->
            \/ day(current_time) = Get(kwargs, "monthly_day", 1)
            \/ /\ Get(kwargs, "monthly_day", 1) > day(current_time)
               /\ day([current_time EXCEPT !.ord = @ + 1]) = 1
      [] OTHER -> FALSE

pattern_matches(current_time, pattern_type, kwargs) ==
    CASE pattern_type = "daily" -> TRUE
      [] pattern_type = "weekly" ->
            weekday(current_time) = (Get(kwargs, "weekly_day", 1) - 1) % 7
      [] pattern_type = "monthly" ->
            day(current_time) = Get(kwargs, "monthly_day", 1)
      [] OTHER -> FALSE

is_time_in_relative_range(current_time, pattern_type, start_time, end_time, kwargs) ==
    LET start_time_obj == strptime(start_time)
        end_time_obj == strptime(end_time)
    IN  IF ~start_time_obj.ok \/ ~end_time_obj.ok
        THEN FALSE
        ELSE /\ time_matches(start_time_obj.sec, end_time_obj.sec, current_time.sec)
             /\ pattern_matches(current_time, pattern_type, kwargs)

-----------------------------------------------------------------------------
(* TimeMatcher, second copy src/src/scheduler.py *)

\* pytz_ok = FALSE stands for ImportError at "import pytz"; comparing an aware
\* with a naive datetime raises TypeError; both end in "return False"
src_is_time_in_absolute_range(current_time, start_datetime, end_datetime, pytz_ok) ==
    LET start_dt == fromisoformat(ReplaceZ(start_datetime))
        end_dt == fromisoformat(ReplaceZ(end_datetime))
    IN  IF ~start_dt.ok \/ ~end_dt.ok
        THEN FALSE
        ELSE IF start_dt.aware
             THEN /\ pytz_ok
                  /\ Instant(start_dt) <= Wall(current_time)
                  /\ end_dt.aware
                  /\ Wall(current_time) <= Instant(end_dt)
             ELSE /\ Wall(start_dt) <= Wall(current_time)
                  /\ ~end_dt.aware
                  /\ Wall(current_time) <= Wall(end_dt)

src_is_time_in_relative_range(current_time, pattern_type, start_time, end_time, kwargs) ==
    LET st == SplitInts(start_time)
        en == SplitInts(end_time)
    IN  IF ~st.ok \/ ~en.ok
        THEN FALSE
        ELSE LET current_time_minutes == current_time.sec \div 60
                 start_time_minutes == st.h * 60 + st.m
                 end_time_minutes == en.h * 60 + en.m
             IN  /\ time_matches(start_time_minutes, end_time_minutes, current_time_minutes)
                 /\ pattern_matches(current_time, pattern_type, kwargs)

-----------------------------------------------------------------------------
(* ScheduleStore as the engine reads it, src/scheduler.py                  *)
(* A file is [kind |-> "missing"], [kind |-> "blank"] (zero bytes or only  *)
(* whitespace), [kind |-> "malformed", text |-> ...] (text json.loads      *)
(* rejects, with the bytes it consists of) or                              *)
(* [kind |-> "json", shape |-> ..., value |-> ...]: text json.loads accepts,*)
(* of shape "array" (value is the sequence of its elements), "object"      *)
(* (value is the dictionary), "number" (value is the number) or "null".    *)
(* An element of an array is a dictionary, or JsonScalar when it is not a  *)
(* JSON object.  What a loader returns is a Python value, [shape, value].  *)

\* a document whose bytes are the text, which is not JSON
Corrupt(text) == [kind |-> "malformed", text |-> text]

JsonArray(v) == [shape |-> "array", value |-> v]

JsonScalar == [json_scalar |-> TRUE]

IsObject(x) == ~Has(x, "json_scalar")

\* "not v" for a value json.loads produced
Falsy(v) ==
    CASE v.shape = "array" -> v.value = <<>>
      [] v.shape = "object" -> DOMAIN v.value = {}
      [] v.shape = "number" -> v.value = 0
      [] OTHER -> TRUE

\* a loader that answers a missing or corrupted document by writing a fresh
\* empty array, as the loaders of the web application do
file_after_load_recovering(file) ==
    IF file.kind \in {"missing", "malformed"}
    THEN [kind |-> "json", shape |-> "array", value |-> <<>>]
    ELSE file

\* the engine's loaders open the document with mode 'r' only: the document is
\* what it was
file_after_load(file) == file

\* json.loads(content) is returned whatever its shape; a missing or blank
\* document and every exception give []
load_schedules(file) ==
    IF file.kind = "json"
    THEN [shape |-> file.shape, value |-> file.value]
    ELSE JsonArray(<<>>)

load_schedule_items(file) ==
    IF file.kind = "json"
    THEN [shape |-> file.shape, value |-> file.value]
    ELSE JsonArray(<<>>)

(* The loaders of the second copy, src/src/scheduler.py: json.load(f) on the *)
(* open file, then len(...) of the result inside the log message, all      *)
(* within "except Exception: return []".  A blank document is a parse      *)
(* error and len() of a number or of None is a TypeError: both give [].    *)

src_load_schedules(file) ==
    IF file.kind = "json" /\ file.shape \in {"array", "object"}
    THEN [shape |-> file.shape, value |-> file.value]
    ELSE JsonArray(<<>>)

src_load_schedule_items(file) ==
    IF file.kind = "json" /\ file.shape \in {"array", "object"}
    THEN [shape |-> file.shape, value |-> file.value]
    ELSE JsonArray(<<>>)

-----------------------------------------------------------------------------
(* ScheduleStore of the web application, src/src/blueprints/schedules.py   *)
(* io is what the file system does during one call: read (open(..., 'r')   *)
(* and f.read() succeed), rename (the rename to the backup succeeds) and   *)
(* write: "ok", "fail_open" (mkdir or open(..., 'w') raises, the document  *)
(* is untouched) or "fail_write" (open has truncated the document, then    *)
(* json.dump raises).                                                      *)

NoValue == [shape |-> "none", value |-> 0]

\* save_schedules(schedules): the document after the call, and whether the
\* exception was re-raised
save_schedules(file, schedules, io) ==
    CASE io.write = "ok" ->
            [raised |-> FALSE,
             file |-> [kind |-> "json", shape |-> schedules.shape, value |-> schedules.value]]
      [] io.write = "fail_open" -> [raised |-> TRUE, file |-> file]
      [] OTHER -> [raised |-> TRUE, file |-> [kind |-> "blank"]]

save_schedule_items(file, schedule_items, io) ==
    CASE io.write = "ok" ->
            [raised |-> FALSE,
             file |-> [kind |-> "json", shape |-> schedule_items.shape,
                       value |-> schedule_items.value]]
      [] io.write = "fail_open" -> [raised |-> TRUE, file |-> file]
      [] OTHER -> [raised |-> TRUE, file |-> [kind |-> "blank"]]

\* "except json.JSONDecodeError" of a loader: the rename to the backup is
\* best-effort, then saved is what save_...([]) did to the document left by
\* the rename; an exception of the save is raised inside the handler, where
\* the "except Exception" of the same try statement does not apply
recover_without_backup(file, backup, io, saved) ==
    [raised |-> saved.raised,
     ret |-> IF saved.raised THEN NoValue ELSE JsonArray(<<>>),
     file |-> saved.file,
     backup |-> backup]

recover(file, backup, io, saved) ==
    [raised |-> saved.raised,
     ret |-> IF saved.raised THEN NoValue ELSE JsonArray(<<>>),
     file |-> saved.file,
     backup |-> IF io.rename THEN file ELSE backup]

\* load_schedules() without the "if not content: return []" test: a blank
\* document goes to json.loads and is handled as a corrupted one
bp_load_schedules_parsing_blank(file, backup, io) ==
    \* the document does not exist: save_schedules([]) inside the try, its
    \* exception is caught by "except Exception"
    IF file.kind = "missing" THEN
            [raised |-> FALSE, ret |-> JsonArray(<<>>),
             file |-> save_schedules(file, JsonArray(<<>>), io).file, backup |-> backup]
    ELSE IF ~io.read THEN
            [raised |-> FALSE, ret |-> JsonArray(<<>>), file |-> file, backup |-> backup]
    ELSE IF file.kind = "json" THEN
            [raised |-> FALSE, ret |-> [shape |-> file.shape, value |-> file.value],
             file |-> file, backup |-> backup]
    ELSE
            recover(file, backup, io,
                    save_schedules(IF io.rename THEN [kind |-> "missing"] ELSE file,
                                   JsonArray(<<>>), io))

\* load_schedules(): the outcome of the call, the document and the backup
\* after it
bp_load_schedules(file, backup, io) ==
    \* the document does not exist: save_schedules([]) inside the try, its
    \* exception is caught by "except Exception"
    IF file.kind = "missing" THEN
            [raised |-> FALSE, ret |-> JsonArray(<<>>),
             file |-> save_schedules(file, JsonArray(<<>>), io).file, backup |-> backup]
    ELSE IF ~io.read THEN
            [raised |-> FALSE, ret |-> JsonArray(<<>>), file |-> file, backup |-> backup]
    ELSE IF file.kind = "blank" THEN
            [raised |-> FALSE, ret |-> JsonArray(<<>>), file |-> file, backup |-> backup]
    ELSE IF file.kind = "json" THEN
            [raised |-> FALSE, ret |-> [shape |-> file.shape, value |-> file.value],
             file |-> file, backup |-> backup]
    ELSE
            recover(file, backup, io,
                    save_schedules(IF io.rename THEN [kind |-> "missing"] ELSE file,
                                   JsonArray(<<>>), io))

\* load_schedule_items()
bp_load_schedule_items(file, backup, io) ==
    \* the document does not exist: save_schedule_items([]) inside the try, its
    \* exception is caught by "except Exception"
    IF file.kind = "missing" THEN
            [raised |-> FALSE, ret |-> JsonArray(<<>>),
             file |-> save_schedule_items(file, JsonArray(<<>>), io).file, backup |-> backup]
    ELSE IF ~io.read THEN
            [raised |-> FALSE, ret |-> JsonArray(<<>>), file |-> file, backup |-> backup]
    ELSE IF file.kind = "blank" THEN
            [raised |-> FALSE, ret |-> JsonArray(<<>>), file |-> file, backup |-> backup]
    ELSE IF file.kind = "json" THEN
            [raised |-> FALSE, ret |-> [shape |-> file.shape, value |-> file.value],
             file |-> file, backup |-> backup]
    ELSE
            recover(file, backup, io,
                    save_schedule_items(IF io.rename THEN [kind |-> "missing"] ELSE file,
                                        JsonArray(<<>>), io))

-----------------------------------------------------------------------------
(* validate_and_fix_json_files, src/src/utils/data_utils.py                *)

\* "with open(file_path, 'w') as f: json.dump(default_content, f, indent=2)"
write_default(file, io) ==
    CASE io.write = "ok" -> [raised |-> FALSE, file |-> [kind |-> "json", shape |-> "array", value |-> <<>>]]
      [] io.write = "fail_open" -> [raised |-> TRUE, file |-> file]
      [] OTHER -> [raised |-> TRUE, file |-> [kind |-> "blank"]]

\* whether an operation the turn performs on the file system fails: the read
\* of a document that exists, the write of the default content, the rename
io_fails(file, io) ==
    IF file.kind = "missing" THEN io.write # "ok"
    ELSE IF ~io.read THEN TRUE
    ELSE IF file.kind = "blank" THEN io.write # "ok"
    ELSE IF file.kind = "json" THEN FALSE
    ELSE ~io.rename \/ io.write # "ok"

\* the turn without the "if not content:" branch: a blank document is left
\* as it is
validate_and_fix_keeping_blank(file, backup, io) ==
    IF file.kind = "missing" THEN
            LET w == write_default(file, io)
            IN  [corrupted |-> w.raised, file |-> w.file, backup |-> backup]
    ELSE IF ~io.read THEN
            [corrupted |-> TRUE, file |-> file, backup |-> backup]
    ELSE IF file.kind \in {"blank", "json"} THEN
            [corrupted |-> FALSE, file |-> file, backup |-> backup]
    ELSE
            [corrupted |-> TRUE,
             file |-> write_default(IF io.rename THEN [kind |-> "missing"] ELSE file, io).file,
             backup |-> IF io.rename THEN file ELSE backup]

\* one turn of the loop over the two documents: whether the file name was
\* appended to corrupted_files, the document and its backup after the turn
validate_and_fix(file, backup, io) ==
    IF file.kind = "missing" THEN
            LET w == write_default(file, io)
            IN  [corrupted |-> w.raised, file |-> w.file, backup |-> backup]
    ELSE IF ~io.read THEN
            [corrupted |-> TRUE, file |-> file, backup |-> backup]
    ELSE IF file.kind = "blank" THEN
            LET w == write_default(file, io)
            IN  [corrupted |-> w.raised, file |-> w.file, backup |-> backup]
    ELSE IF file.kind = "json" THEN
            [corrupted |-> FALSE, file |-> file, backup |-> backup]
    ELSE
            \* except json.JSONDecodeError: the rename and the rewrite are each
            \* in a try of their own, a failure of either is logged
            [corrupted |-> TRUE,
             file |-> write_default(IF io.rename THEN [kind |-> "missing"] ELSE file, io).file,
             backup |-> IF io.rename THEN file ELSE backup]

-----------------------------------------------------------------------------
(* Request handlers of the web application, src/src/blueprints/schedules.py *)
(* The text of a name or of a board name is the sequence of its characters. *)
(* A store is the two documents with their backups; a handler gives the     *)
(* status of its response and the store it leaves.  Ids are the numbers     *)
(* generate_id() prints; created_at and updated_at, which nothing reads,    *)
(* are left out of the stored records.                                      *)

RECURSIVE lstrip(_)
lstrip(s) == IF s # <<>> /\ Head(s) = " " THEN lstrip(Tail(s)) ELSE s

RECURSIVE rstrip(_)
rstrip(s) == IF s # <<>> /\ s[Len(s)] = " " THEN rstrip(SubSeq(s, 1, Len(s) - 1)) ELSE s

\* str.strip()
strip(s) == rstrip(lstrip(s))

\* dict.update(other)
Update(d, other) ==
    [k \in DOMAIN d \cup DOMAIN other |-> IF k \in DOMAIN other THEN other[k] ELSE d[k]]

\* "if field in d: del d[field]" for every field
Del(d, fields) == [k \in DOMAIN d \ fields |-> d[k]]

\* [x for x in seq if Keep(x)]
Filter(seq, Keep(_)) == SelectSeq(seq, Keep)

\* generate_id(): str(int(datetime.now().timestamp() * 1000)), t is the clock
\* in milliseconds
generate_id(t) == t

\* the store after a loader call
AfterLoadSchedules(store, l) ==
    [store EXCEPT !.schedules = l.file, !.backups.schedules = l.backup]

AfterLoadItems(store, l) ==
    [store EXCEPT !.items = l.file, !.backups.items = l.backup]

\* the loader raised, or what it returned is not a list of dictionaries with
\* the key the handler subscripts: the exception ends in the handler's
\* "except Exception" (500)
Unusable(l, key) ==
    \/ l.raised
    \/ l.ret.shape # "array"
    \/ \E i \in DOMAIN l.ret.value : ~IsObject(l.ret.value[i]) \/ ~Has(l.ret.value[i], key)

create_schedule(data, store, t, io) ==
    LET name == strip(Get(data, "name", <<>>))
        active == Get(data, "active", TRUE)
    IN  IF name = <<>> THEN [status |-> 400, store |-> store]
        ELSE
        LET l == bp_load_schedules(store.schedules, store.backups.schedules, io)
            loaded == AfterLoadSchedules(store, l)
        IN  IF Unusable(l, "name") THEN [status |-> 500, store |-> loaded]
            ELSE
            LET schedules == l.ret.value
            IN  IF \E i \in DOMAIN schedules : schedules[i].name = name
                THEN [status |-> 400, store |-> loaded]
                ELSE
                LET new_schedule == [id |-> generate_id(t), name |-> name,
                                     active |-> active]
                    saved == save_schedules(loaded.schedules,
                                            JsonArray(Append(schedules, new_schedule)), io)
                IN  [status |-> IF saved.raised THEN 500 ELSE 200,
                     store |-> [loaded EXCEPT !.schedules = saved.file]]

\* the first index of the list whose record passes the test, 0 when none does
FirstIndex(seq, Test(_)) ==
    IF \E i \in DOMAIN seq : Test(seq[i])
    THEN CHOOSE i \in DOMAIN seq : Test(seq[i]) /\ \A j \in 1..(i - 1) : ~Test(seq[j])
    ELSE 0

update_schedule(schedule_id, data, store, io) ==
    LET name == strip(Get(data, "name", <<>>))
        active == Get(data, "active", TRUE)
    IN  IF name = <<>> THEN [status |-> 400, store |-> store]
        ELSE
        LET l == bp_load_schedules(store.schedules, store.backups.schedules, io)
            loaded == AfterLoadSchedules(store, l)
        IN  IF Unusable(l, "id") THEN [status |-> 500, store |-> loaded]
            ELSE
            LET schedules == l.ret.value
                IsIt(s) == s.id = schedule_id
                i == FirstIndex(schedules, IsIt)
            IN  IF i = 0 THEN [status |-> 404, store |-> loaded]
                ELSE IF \E j \in DOMAIN schedules :
                            ~Has(schedules[j], "name")
                THEN [status |-> 500, store |-> loaded]
                ELSE IF \E j \in DOMAIN schedules :
                            schedules[j].name = name /\ schedules[j].id # schedule_id
                THEN [status |-> 400, store |-> loaded]
                ELSE
                LET updated == [schedules EXCEPT
                                    ![i] = Update(@, [name |-> name, active |-> active])]
                    saved == save_schedules(loaded.schedules, JsonArray(updated), io)
                IN  [status |-> IF saved.raised THEN 500 ELSE 200,
                     store |-> [loaded EXCEPT !.schedules = saved.file]]

\* delete_schedule(): io is what the file system does to schedules.json,
\* io2 what it does to schedule-items.json
delete_schedule(schedule_id, store, io, io2) ==
    LET l == bp_load_schedules(store.schedules, store.backups.schedules, io)
        loaded == AfterLoadSchedules(store, l)
    IN  IF l.raised THEN [status |-> 500, store |-> loaded]
        ELSE
        LET l2 == bp_load_schedule_items(loaded.items, loaded.backups.items, io2)
            loaded2 == AfterLoadItems(loaded, l2)
        IN  IF Unusable(l, "id") \/ Unusable(l2, "schedule_id")
            THEN [status |-> 500, store |-> loaded2]
            ELSE
            LET Other(r) == r.id # schedule_id
                OfOther(item) == item.schedule_id # schedule_id
                saved == save_schedules(loaded2.schedules,
                                        JsonArray(Filter(l.ret.value, Other)), io)
                store3 == [loaded2 EXCEPT !.schedules = saved.file]
            IN  IF saved.raised THEN [status |-> 500, store |-> store3]
                ELSE
                LET saved2 == save_schedule_items(store3.items,
                                                  JsonArray(Filter(l2.ret.value, OfOther)), io2)
                IN  [status |-> IF saved2.raised THEN 500 ELSE 200,
                     store |-> [store3 EXCEPT !.items = saved2.file]]

\* the empty string a missing "start_datetime", "start_time", ... defaults to
Empty == [kind |-> "empty"]

\* int(x): a string of digits is [kind |-> "digits", n |-> ...], ok = FALSE
\* stands for ValueError
int(x) == IF x.kind = "digits" THEN [ok |-> TRUE, n |-> x.n] ELSE [ok |-> FALSE]

\* "end_dt <= start_dt" of two datetimes: aware ones compare as instants,
\* naive ones as wall-clock values, ok = FALSE stands for the TypeError of
\* comparing an aware with a naive one
dt_le(a, b) ==
    IF a.aware # b.aware THEN [ok |-> FALSE]
    ELSE [ok |-> TRUE, le |-> IF a.aware THEN Instant(a) <= Instant(b) ELSE Wall(a) <= Wall(b)]

\* the validation of an absolute window with "end_dt < start_dt" as the
\* rejection test
absolute_fields_accepting_equal(data) ==
    LET start_datetime == Get(data, "start_datetime", Empty)
        end_datetime == Get(data, "end_datetime", Empty)
    IN  IF start_datetime = Empty \/ end_datetime = Empty THEN [status |-> 400]
        ELSE
        LET start_dt == fromisoformat(ReplaceZ(start_datetime))
            end_dt == fromisoformat(ReplaceZ(end_datetime))
        IN  IF ~start_dt.ok \/ ~end_dt.ok THEN [status |-> 400]
            ELSE IF ~dt_le(end_dt, start_dt).ok THEN [status |-> 500]
            ELSE IF dt_le(end_dt, start_dt).le /\ ~dt_le(start_dt, end_dt).le
                 THEN [status |-> 400]
            ELSE [status |-> 200,
                  fields |-> [start_datetime |-> start_datetime,
                              end_datetime |-> end_datetime]]

\* "if schedule_type == 'absolute':" of create_schedule_item and of
\* update_schedule_item: the status of the rejection, or the fields stored
absolute_fields(data) ==
    LET start_datetime == Get(data, "start_datetime", Empty)
        end_datetime == Get(data, "end_datetime", Empty)
    IN  IF start_datetime = Empty \/ end_datetime = Empty THEN [status |-> 400]
        ELSE
        LET start_dt == fromisoformat(ReplaceZ(start_datetime))
            end_dt == fromisoformat(ReplaceZ(end_datetime))
        IN  IF ~start_dt.ok \/ ~end_dt.ok THEN [status |-> 400]
            ELSE IF ~dt_le(end_dt, start_dt).ok THEN [status |-> 500]
            ELSE IF dt_le(end_dt, start_dt).le THEN [status |-> 400]
            ELSE [status |-> 200,
                  fields |-> [start_datetime |-> start_datetime,
                              end_datetime |-> end_datetime]]

\* the "else:" branch, taken for every schedule_type other than 'absolute'
relative_fields(data) ==
    LET pattern_type == Get(data, "pattern_type", "daily")
        start_time == Get(data, "start_time", Empty)
        end_time == Get(data, "end_time", Empty)
    IN  IF start_time = Empty \/ end_time = Empty THEN [status |-> 400]
        ELSE
        LET start_time_obj == strptime(start_time)
            end_time_obj == strptime(end_time)
            window == [pattern_type |-> pattern_type, start_time |-> start_time,
                       end_time |-> end_time]
        IN  IF ~start_time_obj.ok \/ ~end_time_obj.ok THEN [status |-> 400]
            ELSE IF end_time_obj.sec <= start_time_obj.sec THEN [status |-> 400]
            ELSE IF pattern_type = "weekly" THEN
                    LET weekly_day == int(Get(data, "weekly_day", [kind |-> "digits", n |-> 1]))
                    IN  IF ~weekly_day.ok THEN [status |-> 500]
                        ELSE [status |-> 200,
                              fields |-> Update(window, [weekly_day |-> weekly_day.n])]
            ELSE IF pattern_type = "monthly" THEN
                    LET monthly_day == int(Get(data, "monthly_day", [kind |-> "digits", n |-> 1]))
                    IN  IF ~monthly_day.ok THEN [status |-> 500]
                        ELSE [status |-> 200,
                              fields |-> Update(window, [monthly_day |-> monthly_day.n])]
            ELSE [status |-> 200, fields |-> window]

item_fields(data, schedule_type) ==
    IF schedule_type = "absolute" THEN absolute_fields(data) ELSE relative_fields(data)

WindowFields ==
    {"start_datetime", "end_datetime", "pattern_type", "start_time", "end_time",
     "weekly_day", "monthly_day"}

\* create_schedule_item(): io is what the file system does to schedules.json,
\* io2 what it does to schedule-items.json
create_schedule_item(schedule_id, data, store, t, io, io2) ==
    LET board_name == strip(Get(data, "board_name", <<>>))
        schedule_type == Get(data, "schedule_type", "absolute")
    IN  IF board_name = <<>> THEN [status |-> 400, store |-> store]
        ELSE
        LET l == bp_load_schedules(store.schedules, store.backups.schedules, io)
            loaded == AfterLoadSchedules(store, l)
        IN  IF Unusable(l, "id") THEN [status |-> 500, store |-> loaded]
            ELSE IF ~\E i \in DOMAIN l.ret.value : l.ret.value[i].id = schedule_id
            THEN [status |-> 404, store |-> loaded]
            ELSE
            LET l2 == bp_load_schedule_items(loaded.items, loaded.backups.items, io2)
                loaded2 == AfterLoadItems(loaded, l2)
                new_item == [id |-> generate_id(t), schedule_id |-> schedule_id,
                             board_name |-> board_name, schedule_type |-> schedule_type]
                checked == item_fields(data, schedule_type)
            IN  IF l2.raised THEN [status |-> 500, store |-> loaded2]
                ELSE IF checked.status # 200 THEN [status |-> checked.status, store |-> loaded2]
                ELSE IF l2.ret.shape # "array" THEN [status |-> 500, store |-> loaded2]
                ELSE
                LET saved == save_schedule_items(
                                 loaded2.items,
                                 JsonArray(Append(l2.ret.value, Update(new_item, checked.fields))),
                                 io2)
                IN  [status |-> IF saved.raised THEN 500 ELSE 200,
                     store |-> [loaded2 EXCEPT !.items = saved.file]]

\* update_schedule_item(): the item is changed in the loaded list, which is
\* saved only when every test has passed
update_schedule_item(schedule_id, item_id, data, store, io2) ==
    LET board_name == strip(Get(data, "board_name", <<>>))
        schedule_type == Get(data, "schedule_type", "absolute")
    IN  IF board_name = <<>> THEN [status |-> 400, store |-> store]
        ELSE
        LET l2 == bp_load_schedule_items(store.items, store.backups.items, io2)
            loaded2 == AfterLoadItems(store, l2)
        IN  IF Unusable(l2, "id") \/ Unusable(l2, "schedule_id")
            THEN [status |-> 500, store |-> loaded2]
            ELSE
            LET schedule_items == l2.ret.value
                IsIt(item) == item.id = item_id /\ item.schedule_id = schedule_id
                i == FirstIndex(schedule_items, IsIt)
                checked == item_fields(data, schedule_type)
            IN  IF i = 0 THEN [status |-> 404, store |-> loaded2]
                ELSE IF checked.status # 200 THEN [status |-> checked.status, store |-> loaded2]
                ELSE
                LET item_to_update ==
                        Update(Del(Update(schedule_items[i],
                                          [board_name |-> board_name,
                                           schedule_type |-> schedule_type]),
                                   WindowFields),
                               checked.fields)
                    saved == save_schedule_items(
                                 loaded2.items,
                                 JsonArray([schedule_items EXCEPT ![i] = item_to_update]), io2)
                IN  [status |-> IF saved.raised THEN 500 ELSE 200,
                     store |-> [loaded2 EXCEPT !.items = saved.file]]

delete_schedule_item(schedule_id, item_id, store, io2) ==
    LET l2 == bp_load_schedule_items(store.items, store.backups.items, io2)
        loaded2 == AfterLoadItems(store, l2)
    IN  IF Unusable(l2, "id") \/ Unusable(l2, "schedule_id")
        THEN [status |-> 500, store |-> loaded2]
        ELSE
        LET Others(item) == ~(item.id = item_id /\ item.schedule_id = schedule_id)
            schedule_items == Filter(l2.ret.value, Others)
        IN  IF Len(schedule_items) = Len(l2.ret.value)
            THEN [status |-> 404, store |-> loaded2]
            ELSE
            LET saved == save_schedule_items(loaded2.items, JsonArray(schedule_items), io2)
            IN  [status |-> IF saved.raised THEN 500 ELSE 200,
                 store |-> [loaded2 EXCEPT !.items = saved.file]]

-----------------------------------------------------------------------------
(* ScheduleResolver, src/scheduler.py *)

is_item_active_now(item, current_time) ==
    LET schedule_type == Get(item, "schedule_type", "absolute")
    IN  CASE schedule_type = "absolute" ->
                IF ~Has(item, "start_datetime") \/ ~Has(item, "end_datetime")
                THEN FALSE
                ELSE is_time_in_absolute_range(current_time, item.start_datetime,
                                               item.end_datetime)
          [] schedule_type = "relative" ->
                LET pattern_type == Get(item, "pattern_type", "daily")
                    kwargs == CASE pattern_type = "weekly" ->
                                      [weekly_day |-> Get(item, "weekly_day", 1)]
                                [] pattern_type = "monthly" ->
                                      [monthly_day |-> Get(item, "monthly_day", 1)]
                                [] OTHER -> <<>>
                IN  IF ~Has(item, "start_time") \/ ~Has(item, "end_time")
                    THEN FALSE
                    ELSE is_time_in_relative_range(current_time, pattern_type,
                                                   item.start_time, item.end_time, kwargs)
          [] OTHER -> FALSE

\* [s for s in schedules if s.get('active', False)], without the filter
active_schedules_all(schedules) == schedules

\* [s for s in schedules if s.get('active', False)]
active_schedules(schedules) ==
    LET IsActive(s) == Get(s, "active", FALSE) IN SelectSeq(schedules, IsActive)

\* [item for item in schedule_items if item.get('schedule_id') == schedule_id]
items_for_schedule(schedule_items, schedule_id) ==
    LET Belongs(item) == Has(item, "schedule_id") /\ item.schedule_id = schedule_id
    IN  SelectSeq(schedule_items, Belongs)

\* the inner loop, giving up after the first item of the schedule
first_active_index_head(its, current_time) ==
    IF its # <<>> /\ is_item_active_now(its[1], current_time) THEN 1 ELSE 0

\* the inner loop, keeping the last match instead of returning at the first
first_active_index_last(its, current_time) ==
    LET hits == {j \in 1..Len(its) : is_item_active_now(its[j], current_time)}
    IN  IF hits = {} THEN 0 ELSE CHOOSE j \in hits : \A k \in hits : k <= j

\* the inner loop "for item in schedule_items_for_schedule": index of the item
\* it returns at, 0 when it runs to the end
first_active_index(its, current_time) ==
    LET hits == {j \in 1..Len(its) : is_item_active_now(its[j], current_time)}
    IN  IF hits = {} THEN 0 ELSE CHOOSE j \in hits : \A k \in hits : j <= k

\* the outer loop "for schedule in active_schedules", from position i on;
\* "raise" stands for the KeyError of schedule['id'], schedule['name'] or
\* item['board_name']
\* "for x in v" followed by x.get(...) on every element completes only for
\* an array of objects: a number is not iterable (TypeError), the keys of an
\* object and the scalar elements of an array have no get (AttributeError)
AllObjects(v) == v.shape = "array" /\ \A k \in 1..Len(v.value) : IsObject(v.value[k])

RECURSIVE scan_schedules(_, _, _, _)
scan_schedules(actives, i, schedule_items, current_time) ==
    IF i > Len(actives)
    THEN [kind |-> "none"]
    ELSE LET schedule == actives[i]
         IN  IF ~Has(schedule, "id") \/ ~Has(schedule, "name")
             THEN [kind |-> "raise"]
             ELSE IF ~AllObjects(schedule_items)
             THEN [kind |-> "raise"]
             ELSE LET its == items_for_schedule(schedule_items.value, schedule.id)
                      j == first_active_index(its, current_time)
                  IN  IF j = 0
                      THEN scan_schedules(actives, i + 1, schedule_items, current_time)
                      ELSE IF Has(its[j], "board_name")
                           THEN [kind |-> "item", item |-> its[j]]
                           ELSE [kind |-> "raise"]

find_active_schedule_item(schedules, schedule_items, current_time) ==
    IF Falsy(schedules) \/ Falsy(schedule_items)
    THEN [kind |-> "none"]
    ELSE IF ~AllObjects(schedules)
    THEN [kind |-> "raise"]
    ELSE LET actives == active_schedules(schedules.value)
         IN  IF actives = <<>>
             THEN [kind |-> "none"]
             ELSE scan_schedules(actives, 1, schedule_items, current_time)

-----------------------------------------------------------------------------
(* BoardDispatcher and ErrorReporter, src/scheduler.py *)

\* script_path.exists(), with the check left out
script_exists_always(board_name) == TRUE

\* script_path.exists() / dashboard_script.exists()
script_exists(board_name) == board_name \in scripts

\* "if result.returncode == 0", accepting every exit code
returncode_ok_any(code) == TRUE

\* "if result.returncode == 0"
returncode_ok(code) == code = 0

\* exit codes of a child; a negative code is death by a signal
ExitCodes == {0, 1, 0 - 9}

NoCall == [called |-> FALSE, board |-> "", outcome |-> "none", code |-> 0,
           child |-> "none", returned |-> FALSE, ret |-> FALSE]

NoFallback == [called |-> FALSE, cause |-> "none", spawned |-> FALSE,
               outcome |-> "none", code |-> 0, child |-> "none", returned |-> FALSE]

\* subprocess.run(..., timeout=...) whose communicate() times out, with the
\* child left running
run_timeout_child_leaked == "running"

\* subprocess.run(..., timeout=...): when the timeout expires the child is
\* killed and waited for before TimeoutExpired is raised
run_timeout_child == "killed"

\* display_error(error_msg) is entered: by a failed execute_board_script
\* ("dispatch") or by the except clause of run_scheduler ("engine_error");
\* calls are the calls of the run up to this one
EnterDisplayError(cause, calls) ==
    /\ pc' = "reporting"
    /\ fallback' = [NoFallback EXCEPT !.called = TRUE, !.cause = cause]
    /\ trace' = Append(trace, "Reporting")
    /\ events' = Append(calls, "display_error")

\* display_error without its "except Exception": a failure of the dashboard
\* child leaves run_scheduler as an unhandled exception
LeaveDisplayError_raising(outcome, child, code) ==
    /\ pc' = IF outcome \in {"spawn_error", "timeout"} THEN "crashed" ELSE "done"
    /\ fallback' = [fallback EXCEPT !.outcome = outcome, !.child = child, !.code = code,
                                    !.returned = outcome \notin {"spawn_error", "timeout"}]
    /\ primary' = primary
    /\ trace' = IF outcome \in {"spawn_error", "timeout"} THEN trace ELSE Append(trace, "Done")
    /\ events' = events

\* display_error calling itself again when the dashboard child fails
LeaveDisplayError_retrying(outcome, child, code) ==
    IF outcome \in {"spawn_error", "timeout"}
    THEN /\ pc' = "reporting"
         /\ fallback' = [NoFallback EXCEPT !.called = TRUE, !.cause = fallback.cause]
         /\ primary' = primary
         /\ trace' = Append(trace, "Reporting")
         /\ events' = Append(events, "display_error")
    ELSE /\ pc' = "done"
         /\ fallback' = [fallback EXCEPT !.outcome = outcome, !.child = child,
                                         !.code = code, !.returned = TRUE]
         /\ primary' = IF fallback.cause = "dispatch"
                       THEN [primary EXCEPT !.returned = TRUE, !.ret = FALSE]
                       ELSE primary
         /\ trace' = Append(trace, "Done")
         /\ events' = events

\* display_error returns, whatever became of the dashboard child: a missing
\* script is a warning, every exception is caught and logged.  A failed
\* execute_board_script then returns False to run_scheduler, which logs and
\* completes
LeaveDisplayError(outcome, child, code) ==
    /\ pc' = "done"
    /\ fallback' = [fallback EXCEPT !.outcome = outcome, !.child = child, !.code = code,
                                    !.returned = TRUE]
    /\ primary' = IF fallback.cause = "dispatch"
                  THEN [primary EXCEPT !.returned = TRUE, !.ret = FALSE]
                  ELSE primary
    /\ trace' = Append(trace, "Done")
    /\ events' = events

-----------------------------------------------------------------------------
(* run_scheduler, src/scheduler.py: one engine invocation *)

\* "=== Scheduler Engine Starting ===", then find_active_schedule_item is entered
Begin ==
    /\ pc = "start"
    /\ pc' = "resolving"
    /\ trace' = Append(trace, "Resolving")
    /\ UNCHANGED <<probe, now, backups, writer, clock, schedulesFile, itemsFile, scripts, active_item, primary,
                   fallback, events>>

\* "else" branch of run_scheduler with the dashboard_script.exists() test left out
default_dispatch_unguarded == TRUE

\* "else" branch of run_scheduler: the default board is dispatched only if its
\* script exists
default_dispatch == script_exists("dashboard")

\* run_scheduler without its "except Exception": what resolution raises leaves
\* the process as an unhandled exception
engine_error_uncaught == FALSE

\* "except Exception as e" of run_scheduler encloses resolution and dispatch
engine_error_caught == TRUE

\* find_active_schedule_item loads both documents and resolves; run_scheduler
\* branches on the result
Resolve ==
    /\ pc = "resolving"
    /\ LET r == find_active_schedule_item(load_schedules(schedulesFile),
                                          load_schedule_items(itemsFile), now)
           calls == Append(events, "find_active_schedule_item")
       IN  /\ active_item' = r
           /\ CASE r.kind = "item" ->
                     /\ pc' = "dispatching"
                     /\ primary' = [NoCall EXCEPT !.board = r.item.board_name]
                     /\ trace' = Append(trace, "Dispatching")
                     /\ events' = calls
                     /\ UNCHANGED fallback
                [] r.kind = "none" /\ default_dispatch ->
                     /\ pc' = "dispatching_default"
                     /\ primary' = [NoCall EXCEPT !.board = "dashboard"]
                     /\ trace' = Append(trace, "DispatchingDefault")
                     /\ events' = calls
                     /\ UNCHANGED fallback
                [] r.kind = "none" /\ ~default_dispatch ->
                     /\ pc' = "done"
                     /\ trace' = Append(trace, "Done")
                     /\ events' = calls
                     /\ UNCHANGED <<primary, fallback>>
                [] OTHER ->
                     IF engine_error_caught
                     THEN /\ EnterDisplayError("engine_error", calls)
                          /\ UNCHANGED primary
                     ELSE /\ pc' = "crashed"
                          /\ events' = calls
                          /\ UNCHANGED <<primary, fallback, trace>>
    /\ schedulesFile' = file_after_load(schedulesFile)
    /\ itemsFile' = file_after_load(itemsFile)
    /\ UNCHANGED <<probe, now, backups, writer, clock, scripts>>

\* execute_board_script: the script does not exist
ScriptNotFound ==
    /\ pc \in {"dispatching", "dispatching_default"}
    /\ ~script_exists(primary.board)
    /\ primary' = [primary EXCEPT !.called = TRUE, !.outcome = "not_found"]
    /\ EnterDisplayError("dispatch", events)
    /\ UNCHANGED <<probe, now, backups, writer, clock, schedulesFile, itemsFile, scripts, active_item>>

\* execute_board_script: subprocess.run starts the child
SpawnPrimary ==
    /\ pc \in {"dispatching", "dispatching_default"}
    /\ script_exists(primary.board)
    /\ primary' = [primary EXCEPT !.called = TRUE, !.outcome = "running", !.child = "running"]
    /\ pc' = "primary_running"
    /\ events' = Append(events, "spawn_primary")
    /\ UNCHANGED <<probe, now, backups, writer, clock, schedulesFile, itemsFile, scripts, active_item, fallback, trace>>

\* execute_board_script: subprocess.run raises before a child runs (OSError)
SpawnPrimaryError ==
    /\ pc \in {"dispatching", "dispatching_default"}
    /\ script_exists(primary.board)
    /\ primary' = [primary EXCEPT !.called = TRUE, !.outcome = "spawn_error"]
    /\ EnterDisplayError("dispatch", events)
    /\ UNCHANGED <<probe, now, backups, writer, clock, schedulesFile, itemsFile, scripts, active_item>>

\* execute_board_script: the child exits within the 300 s timeout
PrimaryExit ==
    /\ pc = "primary_running"
    /\ \E code \in ExitCodes :
          IF returncode_ok(code)
          THEN /\ primary' = [primary EXCEPT !.outcome = "exit", !.code = code,
                                             !.child = "exited", !.returned = TRUE,
                                             !.ret = TRUE]
               /\ pc' = "done"
               /\ trace' = Append(trace, "Done")
               /\ UNCHANGED <<fallback, events>>
          ELSE /\ primary' = [primary EXCEPT !.outcome = "exit", !.code = code,
                                             !.child = "exited"]
               /\ EnterDisplayError("dispatch", events)
    /\ UNCHANGED <<probe, now, backups, writer, clock, schedulesFile, itemsFile, scripts, active_item>>

\* execute_board_script: TimeoutExpired; subprocess.run has killed the child
PrimaryTimeout ==
    /\ pc = "primary_running"
    /\ primary' = [primary EXCEPT !.outcome = "timeout", !.child = run_timeout_child]
    /\ EnterDisplayError("dispatch", events)
    /\ UNCHANGED <<probe, now, backups, writer, clock, schedulesFile, itemsFile, scripts, active_item>>

\* display_error: the dashboard script does not exist, a warning is logged
FallbackNotFound ==
    /\ pc = "reporting"
    /\ ~script_exists("dashboard")
    /\ LeaveDisplayError("not_found", "none", 0)
    /\ UNCHANGED <<probe, now, backups, writer, clock, schedulesFile, itemsFile, scripts, active_item>>

\* display_error: subprocess.run starts the dashboard child
SpawnFallback ==
    /\ pc = "reporting"
    /\ script_exists("dashboard")
    /\ fallback' = [fallback EXCEPT !.spawned = TRUE, !.outcome = "running",
                                    !.child = "running"]
    /\ pc' = "fallback_running"
    /\ events' = Append(events, "spawn_fallback")
    /\ UNCHANGED <<probe, now, backups, writer, clock, schedulesFile, itemsFile, scripts, active_item, primary, trace>>

\* display_error: subprocess.run raises before a child runs; the exception is logged
SpawnFallbackError ==
    /\ pc = "reporting"
    /\ script_exists("dashboard")
    /\ LeaveDisplayError("spawn_error", "none", 0)
    /\ UNCHANGED <<probe, now, backups, writer, clock, schedulesFile, itemsFile, scripts, active_item>>

\* display_error: the dashboard child exits within the 60 s timeout; its exit
\* code is not looked at
FallbackExit ==
    /\ pc = "fallback_running"
    /\ \E code \in ExitCodes : LeaveDisplayError("exit", "exited", code)
    /\ UNCHANGED <<probe, now, backups, writer, clock, schedulesFile, itemsFile, scripts, active_item>>

\* display_error: TimeoutExpired; subprocess.run has killed the child, the
\* exception is logged
FallbackTimeout ==
    /\ pc = "fallback_running"
    /\ LeaveDisplayError("timeout", run_timeout_child, 0)
    /\ UNCHANGED <<probe, now, backups, writer, clock, schedulesFile, itemsFile, scripts, active_item>>

-----------------------------------------------------------------------------
(* Stored data and instants the engine is run on *)

Iso(ord, sec, zone) == [kind |-> "iso", ord |-> ord, sec |-> sec, zone |-> zone]

HM(h, m) == [kind |-> "hm", h |-> h, m |-> m]

At(ord, h, m, s) == [ord |-> ord, sec |-> h * 3600 + m * 60 + s]

\* Monday 2025-04-07 12:00:00 and Tuesday 2025-04-01 23:30:00
EngineNows == {At(6, 12, 0, 0), At(0, 23, 30, 0)}

Schedule(id, active) == [id |-> id, name |-> id, active |-> active]

ScheduleRecords ==
    { Schedule("s1", TRUE), Schedule("s2", TRUE), Schedule("s1", FALSE),
      [id |-> "s2", name |-> "s2"],            \* no "active" key
      [id |-> "s1", active |-> TRUE] }         \* no "name" key

\* the whole of Monday 2025-04-07
MondayWindow(sid, board) ==
    [schedule_id |-> sid, board_name |-> board, schedule_type |-> "absolute",
     start_datetime |-> Iso(6, 0, ""), end_datetime |-> Iso(6, 23 * 3600 + 59 * 60, "")]

\* every night 22:00 - 06:00
Overnight(sid, board) ==
    [schedule_id |-> sid, board_name |-> board, schedule_type |-> "relative",
     pattern_type |-> "daily", start_time |-> HM(22, 0), end_time |-> HM(6, 0)]

ItemRecords ==
    { MondayWindow("s1", "photo-album"), MondayWindow("s2", "missing-board"),
      Overnight("s1", "dashboard"),
      MondayWindow("s9", "photo-album"),      \* no schedule has id s9
      \* absolute without end_datetime
      [schedule_id |-> "s1", board_name |-> "photo-album", schedule_type |-> "absolute",
       start_datetime |-> Iso(6, 0, "")],
      \* relative without start_time
      [schedule_id |-> "s1", board_name |-> "photo-album", schedule_type |-> "relative",
       pattern_type |-> "daily", end_time |-> HM(23, 59)],
      \* weekly without weekly_day
      [schedule_id |-> "s1", board_name |-> "missing-board", schedule_type |-> "relative",
       pattern_type |-> "weekly", start_time |-> HM(0, 0), end_time |-> HM(23, 59)],
      \* no "board_name" key
      [schedule_id |-> "s2", schedule_type |-> "relative", pattern_type |-> "daily",
       start_time |-> HM(0, 0), end_time |-> HM(23, 59)] }

RECURSIVE SeqsUpTo(_, _)
SeqsUpTo(S, n) ==
    IF n = 0 THEN {<<>>}
    ELSE LET shorter == SeqsUpTo(S, n - 1)
         IN  shorter \cup {Append(q, x) : q \in shorter, x \in S}

FileContents(S, n) ==
    {[kind |-> "missing"], [kind |-> "blank"], Corrupt("{")}
        \cup {[kind |-> "json", shape |-> "array", value |-> v] : v \in SeqsUpTo(S, n)}

\* no save call is between its open(..., 'w') and the end of its with block
Idle == [kind |-> "idle"]

NoBackups == [schedules |-> [kind |-> "missing"], items |-> [kind |-> "missing"]]

\* "photo-album" always has a script, "missing-board" never, "dashboard" may
ScriptSets == {{"photo-album"}, {"photo-album", "dashboard"}}

NoProbe == [fn |-> "none"]

Init ==
    /\ probe = NoProbe
    /\ now \in EngineNows
    /\ schedulesFile \in FileContents(ScheduleRecords, MaxSchedules)
    /\ itemsFile \in FileContents(ItemRecords, MaxItems)
    /\ scripts \in ScriptSets
    /\ pc = "start"
    /\ active_item = [kind |-> "pending"]
    /\ primary = NoCall
    /\ fallback = NoFallback
    /\ trace = <<"Start">>
    /\ events = <<>>
    /\ backups = NoBackups
    /\ writer = Idle
    /\ clock = 0

Next ==
    \/ Begin
    \/ Resolve
    \/ ScriptNotFound
    \/ SpawnPrimary
    \/ SpawnPrimaryError
    \/ PrimaryExit
    \/ PrimaryTimeout
    \/ FallbackNotFound
    \/ SpawnFallback
    \/ SpawnFallbackError
    \/ FallbackExit
    \/ FallbackTimeout

Spec == Init /\ [][Next]_vars

-----------------------------------------------------------------------------
(* Engine runs over documents of every shape.  The engine is one sequential *)
(* process and each child either exits or is timed out by subprocess.run,   *)
(* so a run keeps taking steps while one is possible.                       *)

\* valid JSON that is not an array: one schedule not wrapped in an array, {},
\* 5, 0 and null
OtherDocuments ==
    { [kind |-> "json", shape |-> "object", value |-> Schedule("s1", TRUE)],
      [kind |-> "json", shape |-> "object", value |-> <<>>],
      [kind |-> "json", shape |-> "number", value |-> 5],
      [kind |-> "json", shape |-> "number", value |-> 0],
      [kind |-> "json", shape |-> "null", value |-> 0] }

ShapeScheduleRecords ==
    { Schedule("s1", TRUE), [id |-> "s1", active |-> TRUE], JsonScalar }

ShapeItemRecords ==
    { MondayWindow("s1", "photo-album"), MondayWindow("s1", "missing-board"),
      [schedule_id |-> "s1", schedule_type |-> "relative", pattern_type |-> "daily",
       start_time |-> HM(0, 0), end_time |-> HM(23, 59)],
      JsonScalar }

InitLive ==
    /\ probe = NoProbe
    /\ now \in EngineNows
    /\ schedulesFile \in FileContents(ShapeScheduleRecords, MaxSchedules) \cup OtherDocuments
    /\ itemsFile \in FileContents(ShapeItemRecords, MaxItems) \cup OtherDocuments
    /\ scripts \in ScriptSets
    /\ pc = "start"
    /\ active_item = [kind |-> "pending"]
    /\ primary = NoCall
    /\ fallback = NoFallback
    /\ trace = <<"Start">>
    /\ events = <<>>
    /\ backups = NoBackups
    /\ writer = Idle
    /\ clock = 0

SpecLive == InitLive /\ [][Next]_vars /\ WF_vars(Next)

-----------------------------------------------------------------------------
(* Calls of the loaders on a store in any condition.  probe holds the last  *)
(* call: the loader, the document it found, what the file system did       *)
(* during the call, whether it raised, what it returned.                   *)

Io == [read : BOOLEAN, rename : BOOLEAN, write : {"ok", "fail_open", "fail_write"}]

StoreScheduleRecords == { Schedule("s1", TRUE), Schedule("s2", FALSE) }

StoreItemRecords == { MondayWindow("s1", "photo-album"), Overnight("s1", "dashboard") }

\* no backup yet, or the backups a former recovery left
BackupStates ==
    { NoBackups, [schedules |-> Corrupt("[1,"), items |-> Corrupt("[1,")] }

storeFrame == <<now, scripts, pc, active_item, primary, fallback, trace, events, writer, clock>>

BpLoadSchedules ==
    /\ \E io \in Io :
          LET r == bp_load_schedules(schedulesFile, backups.schedules, io)
          IN  /\ probe' = [fn |-> "bp_load_schedules", file |-> schedulesFile, io |-> io,
                           raised |-> r.raised, ret |-> r.ret]
              /\ schedulesFile' = r.file
              /\ backups' = [backups EXCEPT !.schedules = r.backup]
    /\ UNCHANGED itemsFile
    /\ UNCHANGED storeFrame

BpLoadScheduleItems ==
    /\ \E io \in Io :
          LET r == bp_load_schedule_items(itemsFile, backups.items, io)
          IN  /\ probe' = [fn |-> "bp_load_schedule_items", file |-> itemsFile, io |-> io,
                           raised |-> r.raised, ret |-> r.ret]
              /\ itemsFile' = r.file
              /\ backups' = [backups EXCEPT !.items = r.backup]
    /\ UNCHANGED schedulesFile
    /\ UNCHANGED storeFrame

EngineLoadSchedules ==
    /\ probe' = [fn |-> "load_schedules", file |-> schedulesFile,
                 raised |-> FALSE, ret |-> load_schedules(schedulesFile)]
    /\ schedulesFile' = file_after_load(schedulesFile)
    /\ UNCHANGED <<itemsFile, backups>>
    /\ UNCHANGED storeFrame

EngineLoadScheduleItems ==
    /\ probe' = [fn |-> "load_schedule_items", file |-> itemsFile,
                 raised |-> FALSE, ret |-> load_schedule_items(itemsFile)]
    /\ itemsFile' = file_after_load(itemsFile)
    /\ UNCHANGED <<schedulesFile, backups>>
    /\ UNCHANGED storeFrame

SrcEngineLoadSchedules ==
    /\ probe' = [fn |-> "src_load_schedules", file |-> schedulesFile,
                 raised |-> FALSE, ret |-> src_load_schedules(schedulesFile)]
    /\ schedulesFile' = file_after_load(schedulesFile)
    /\ UNCHANGED <<itemsFile, backups>>
    /\ UNCHANGED storeFrame

SrcEngineLoadScheduleItems ==
    /\ probe' = [fn |-> "src_load_schedule_items", file |-> itemsFile,
                 raised |-> FALSE, ret |-> src_load_schedule_items(itemsFile)]
    /\ itemsFile' = file_after_load(itemsFile)
    /\ UNCHANGED <<schedulesFile, backups>>
    /\ UNCHANGED storeFrame

\* the application validates the two documents, in this order
ValidateAndFixJsonFiles ==
    /\ \E io1 \in Io, io2 \in Io :
          LET r1 == validate_and_fix(schedulesFile, backups.schedules, io1)
              r2 == validate_and_fix(itemsFile, backups.items, io2)
          IN  /\ probe' = [fn |-> "validate_and_fix_json_files",
                           files |-> <<schedulesFile, itemsFile>>,
                           io_failed |-> io_fails(schedulesFile, io1) \/ io_fails(itemsFile, io2),
                           raised |-> FALSE,
                           ret |-> ~(r1.corrupted \/ r2.corrupted)]
              /\ schedulesFile' = r1.file
              /\ itemsFile' = r2.file
              /\ backups' = [schedules |-> r1.backup, items |-> r2.backup]
    /\ UNCHANGED storeFrame

\* bytes that are not JSON, as a torn write or an edit by hand leaves them
CorruptTexts == {"{", "[1,"}

\* a corruption event: the bytes of a document become invalid JSON
CorruptSchedules ==
    /\ \E text \in CorruptTexts : schedulesFile' = Corrupt(text)
    /\ probe' = [fn |-> "corruption", document |-> "schedules"]
    /\ UNCHANGED <<itemsFile, backups>>
    /\ UNCHANGED storeFrame

CorruptScheduleItems ==
    /\ \E text \in CorruptTexts : itemsFile' = Corrupt(text)
    /\ probe' = [fn |-> "corruption", document |-> "items"]
    /\ UNCHANGED <<schedulesFile, backups>>
    /\ UNCHANGED storeFrame

InitStore ==
    /\ probe = NoProbe
    /\ now = At(0, 0, 0, 0)
    /\ schedulesFile \in FileContents(StoreScheduleRecords, 1) \cup OtherDocuments
    /\ itemsFile \in FileContents(StoreItemRecords, 1) \cup {[kind |-> "json", shape |-> "null", value |-> 0]}
    /\ backups \in BackupStates
    /\ writer = Idle
    /\ clock = 0
    /\ scripts = {}
    /\ pc = "idle"
    /\ active_item = [kind |-> "pending"]
    /\ primary = NoCall
    /\ fallback = NoFallback
    /\ trace = <<>>
    /\ events = <<>>

NextStore ==
    \/ BpLoadSchedules
    \/ BpLoadScheduleItems
    \/ EngineLoadSchedules
    \/ EngineLoadScheduleItems
    \/ SrcEngineLoadSchedules
    \/ SrcEngineLoadScheduleItems
    \/ ValidateAndFixJsonFiles
    \/ CorruptSchedules
    \/ CorruptScheduleItems

SpecStore == InitStore /\ [][NextStore]_vars

-----------------------------------------------------------------------------
(* A save of the web application running beside the loads of the engine.   *)
(* save_schedules and save_schedule_items write the document in place:     *)
(* open(..., 'w') truncates it, json.dump writes the text through a        *)
(* buffered file in pieces, leaving the with block flushes the rest.  The  *)
(* engine is another process and takes no lock, so each of its loads reads *)
(* the bytes that are in the document at that moment.                      *)

saveFrame == <<now, scripts, pc, active_item, primary, fallback, trace, events, backups, clock>>

\* the bytes of a document between two pieces of json.dump: a proper prefix
\* of the text of a non-empty array
TornText == "["

\* the data directory does not exist: neither document does
NoDirectory == [kind |-> "missing", directory |-> "absent"]

\* SCHEDULES_FILE.parent.mkdir(exist_ok=True): the directory exists afterwards
\* (its parent is the directory the source tree is in); a document of the
\* directory is as it was, or absent from the directory just made
mkdir(file) == IF file = NoDirectory THEN [kind |-> "missing"] ELSE file

\* open(..., 'a'): the text is written after what the document holds
written_appending(old, new) ==
    IF old.kind = "json" /\ old.shape = "array"
    THEN [kind |-> "json", shape |-> "array", value |-> old.value \o new.value]
    ELSE [kind |-> "json", shape |-> new.shape, value |-> new.value]

\* what the document holds when the with block of a save ends: open(..., 'w')
\* has dropped what it held, json.dump has written the text of the collection
written(old, new) == [kind |-> "json", shape |-> new.shape, value |-> new.value]

\* mkdir and open(SCHEDULES_FILE, 'w') of save_schedules(schedules); open
\* raises when the directory is absent
SaveSchedulesOpen ==
    /\ writer = Idle
    /\ IF mkdir(schedulesFile) = NoDirectory
       THEN /\ probe' = [fn |-> "save_schedules", step |-> "raise"]
            /\ UNCHANGED <<writer, schedulesFile, itemsFile>>
       ELSE /\ \E schedules \in SeqsUpTo(StoreScheduleRecords, MaxSchedules) :
                  writer' = [kind |-> "open", document |-> "schedules", old |-> schedulesFile,
                             new |-> JsonArray(schedules)]
            /\ schedulesFile' = [kind |-> "blank"]
            /\ itemsFile' = mkdir(itemsFile)
            /\ probe' = [fn |-> "save_schedules", step |-> "open"]
    /\ UNCHANGED saveFrame

\* mkdir and open(SCHEDULE_ITEMS_FILE, 'w') of save_schedule_items(schedule_items)
SaveScheduleItemsOpen ==
    /\ writer = Idle
    /\ IF mkdir(itemsFile) = NoDirectory
       THEN /\ probe' = [fn |-> "save_schedule_items", step |-> "raise"]
            /\ UNCHANGED <<writer, schedulesFile, itemsFile>>
       ELSE /\ \E schedule_items \in SeqsUpTo(StoreItemRecords, MaxItems) :
                  writer' = [kind |-> "open", document |-> "items", old |-> itemsFile,
                             new |-> JsonArray(schedule_items)]
            /\ itemsFile' = [kind |-> "blank"]
            /\ schedulesFile' = mkdir(schedulesFile)
            /\ probe' = [fn |-> "save_schedule_items", step |-> "open"]
    /\ UNCHANGED saveFrame

\* json.dump has written a part of the text and the buffer was flushed
SaveFlush ==
    /\ writer.kind = "open"
    /\ writer.new.value # <<>>
    /\ IF writer.document = "schedules"
       THEN schedulesFile' = Corrupt(TornText) /\ UNCHANGED itemsFile
       ELSE itemsFile' = Corrupt(TornText) /\ UNCHANGED schedulesFile
    /\ probe' = [fn |-> "save", step |-> "flush"]
    /\ UNCHANGED writer
    /\ UNCHANGED saveFrame

\* json.dump has returned and the with block has closed the file
SaveClose ==
    /\ writer.kind = "open"
    /\ LET document == written(writer.old, writer.new)
       IN  IF writer.document = "schedules"
           THEN schedulesFile' = document /\ UNCHANGED itemsFile
           ELSE itemsFile' = document /\ UNCHANGED schedulesFile
    /\ writer' = Idle
    /\ probe' = [fn |-> "save", step |-> "close"]
    /\ UNCHANGED saveFrame

\* json.dump raises (the disk is full): the with block closes the file with
\* what was written so far, the exception is logged and raised again
SaveRaise ==
    /\ writer.kind = "open"
    /\ writer' = Idle
    /\ probe' = [fn |-> "save", step |-> "raise"]
    /\ UNCHANGED <<schedulesFile, itemsFile>>
    /\ UNCHANGED saveFrame

InitSave ==
    /\ probe = NoProbe
    /\ now = At(0, 0, 0, 0)
    /\ \/ /\ schedulesFile \in FileContents(StoreScheduleRecords, MaxSchedules)
          /\ itemsFile \in FileContents(StoreItemRecords, MaxItems)
       \/ /\ schedulesFile = NoDirectory
          /\ itemsFile = NoDirectory
    /\ backups = NoBackups
    /\ writer = Idle
    /\ clock = 0
    /\ scripts = {}
    /\ pc = "idle"
    /\ active_item = [kind |-> "pending"]
    /\ primary = NoCall
    /\ fallback = NoFallback
    /\ trace = <<>>
    /\ events = <<>>

NextSave ==
    \/ SaveSchedulesOpen
    \/ SaveScheduleItemsOpen
    \/ SaveFlush
    \/ SaveClose
    \/ SaveRaise
    \/ EngineLoadSchedules
    \/ EngineLoadScheduleItems
    \/ SrcEngineLoadSchedules
    \/ SrcEngineLoadScheduleItems

SpecSave == InitSave /\ [][NextSave]_vars

-----------------------------------------------------------------------------
(* Requests to the web application on a store that starts empty.  probe    *)
(* holds the last request and the status of its response.  A request reads *)
(* the clock once; requests in the same millisecond read the same value.   *)

MaxClock == 1

\* requests that would store more records than this are not made
MaxStoredSchedules == 2

MaxStoredItems == 1

crudFrame == <<now, scripts, pc, active_item, primary, fallback, trace, events, writer>>

StoreNow == [schedules |-> schedulesFile, items |-> itemsFile, backups |-> backups]

\* the documents and backups become what the handler left
Leaves(store) ==
    /\ schedulesFile' = store.schedules
    /\ itemsFile' = store.items
    /\ backups' = store.backups

\* the number of records in a document
Records(file) == IF file.kind = "json" /\ file.shape = "array" THEN Len(file.value) ELSE 0

\* the file system does nothing wrong during a call
GoodIo == [read |-> TRUE, rename |-> TRUE, write |-> "ok"]

\* what the file system does during a request: nothing wrong, or one fault
CrudIo ==
    { GoodIo,
      [read |-> FALSE, rename |-> TRUE, write |-> "ok"],
      [read |-> TRUE, rename |-> TRUE, write |-> "fail_open"],
      [read |-> TRUE, rename |-> TRUE, write |-> "fail_write"] }

\* what it does to schedules.json and to schedule-items.json during a request
\* that works on both: nothing wrong, or one fault
CrudIoPairs == {pair \in CrudIo \X CrudIo : pair[1] = GoodIo \/ pair[2] = GoodIo}

RequestIds == 0..MaxClock

\* request bodies of create_schedule and update_schedule
SchedulePayloads ==
    { [name |-> <<"A">>], [name |-> <<" ", "B">>, active |-> FALSE],
      [name |-> <<" ">>], [active |-> TRUE] }

\* a request body of create_schedule_item and update_schedule_item that
\* passes every test
PlainPayloads ==
    { [board_name |-> <<"p">>, schedule_type |-> "absolute",
       start_datetime |-> Iso(0, 0, ""), end_datetime |-> Iso(1, 0, "")] }

Tick ==
    /\ clock < MaxClock
    /\ clock' = clock + 1
    /\ UNCHANGED <<probe, schedulesFile, itemsFile, backups>>
    /\ UNCHANGED crudFrame

CreateSchedule ==
    /\ Records(schedulesFile) < MaxStoredSchedules
    /\ \E data \in SchedulePayloads, io \in CrudIo :
          LET r == create_schedule(data, StoreNow, clock, io)
          IN  /\ probe' = [fn |-> "create_schedule", status |-> r.status]
              /\ Leaves(r.store)
    /\ UNCHANGED clock
    /\ UNCHANGED crudFrame

UpdateSchedule ==
    /\ \E schedule_id \in RequestIds, data \in SchedulePayloads, io \in CrudIo :
          LET r == update_schedule(schedule_id, data, StoreNow, io)
          IN  /\ probe' = [fn |-> "update_schedule", schedule_id |-> schedule_id,
                           status |-> r.status]
              /\ Leaves(r.store)
    /\ UNCHANGED clock
    /\ UNCHANGED crudFrame

DeleteSchedule ==
    /\ \E schedule_id \in RequestIds, ios \in CrudIoPairs :
          LET r == delete_schedule(schedule_id, StoreNow, ios[1], ios[2])
          IN  /\ probe' = [fn |-> "delete_schedule", schedule_id |-> schedule_id,
                           status |-> r.status]
              /\ Leaves(r.store)
    /\ UNCHANGED clock
    /\ UNCHANGED crudFrame

CreateScheduleItem ==
    /\ Records(itemsFile) < MaxStoredItems
    /\ \E schedule_id \in RequestIds, data \in PlainPayloads, ios \in CrudIoPairs :
          LET r == create_schedule_item(schedule_id, data, StoreNow, clock, ios[1], ios[2])
          IN  /\ probe' = [fn |-> "create_schedule_item", schedule_id |-> schedule_id,
                           status |-> r.status]
              /\ Leaves(r.store)
    /\ UNCHANGED clock
    /\ UNCHANGED crudFrame

UpdateScheduleItem ==
    /\ \E schedule_id \in RequestIds, item_id \in RequestIds, data \in PlainPayloads,
          io2 \in CrudIo :
          LET r == update_schedule_item(schedule_id, item_id, data, StoreNow, io2)
          IN  /\ probe' = [fn |-> "update_schedule_item", schedule_id |-> schedule_id,
                           item_id |-> item_id, status |-> r.status]
              /\ Leaves(r.store)
    /\ UNCHANGED clock
    /\ UNCHANGED crudFrame

DeleteScheduleItem ==
    /\ \E schedule_id \in RequestIds, item_id \in RequestIds, io2 \in CrudIo :
          LET r == delete_schedule_item(schedule_id, item_id, StoreNow, io2)
          IN  /\ probe' = [fn |-> "delete_schedule_item", schedule_id |-> schedule_id,
                           item_id |-> item_id, status |-> r.status]
              /\ Leaves(r.store)
    /\ UNCHANGED clock
    /\ UNCHANGED crudFrame

InitCrud ==
    /\ probe = NoProbe
    /\ now = At(0, 0, 0, 0)
    /\ schedulesFile \in {[kind |-> "missing"], [kind |-> "json", shape |-> "array", value |-> <<>>]}
    /\ itemsFile \in {[kind |-> "missing"], [kind |-> "json", shape |-> "array", value |-> <<>>]}
    /\ backups = NoBackups
    /\ writer = Idle
    /\ clock = 0
    /\ scripts = {}
    /\ pc = "idle"
    /\ active_item = [kind |-> "pending"]
    /\ primary = NoCall
    /\ fallback = NoFallback
    /\ trace = <<>>
    /\ events = <<>>

NextCrud ==
    \/ Tick
    \/ CreateSchedule
    \/ UpdateSchedule
    \/ DeleteSchedule
    \/ CreateScheduleItem
    \/ UpdateScheduleItem
    \/ DeleteScheduleItem

SpecCrud == InitCrud /\ [][NextCrud]_vars

-----------------------------------------------------------------------------
(* Requests that create and update the items of one schedule, with request  *)
(* bodies of every form.                                                    *)

Digits(n) == [kind |-> "digits", n |-> n]

Relative(pattern_type, start_time, end_time) ==
    [board_name |-> <<"p">>, schedule_type |-> "relative", pattern_type |-> pattern_type,
     start_time |-> start_time, end_time |-> end_time]

Absolute(start_datetime, end_datetime) ==
    [board_name |-> <<"p">>, schedule_type |-> "absolute",
     start_datetime |-> start_datetime, end_datetime |-> end_datetime]

ItemPayloads ==
    { \* absolute windows: in order, reversed, empty, of mixed zones, of two
      \* zones, without end, not ISO-8601
      Absolute(Iso(0, 0, ""), Iso(1, 0, "")),
      Absolute(Iso(1, 0, ""), Iso(0, 0, "")),
      Absolute(Iso(0, 0, "Z"), Iso(0, 0, "Z")),
      Absolute(Iso(0, 0, ""), Iso(1, 0, "Z")),
      Absolute(Iso(0, 12 * 3600, "+02:00"), Iso(0, 12 * 3600 - 1, "Z")),
      [board_name |-> <<"p">>, schedule_type |-> "absolute", start_datetime |-> Iso(0, 0, "")],
      Absolute([kind |-> "bad"], Iso(1, 0, "")),
      \* relative windows: same-day, overnight, not HH:MM
      Relative("daily", HM(6, 0), HM(22, 0)),
      Relative("daily", HM(22, 0), HM(6, 0)),
      Relative("daily", HM(6, 0), HM(24, 0)),
      \* days of the week and of the month, in and out of range, not a number
      Update(Relative("weekly", HM(6, 0), HM(22, 0)), [weekly_day |-> Digits(7)]),
      Update(Relative("weekly", HM(6, 0), HM(22, 0)), [weekly_day |-> Digits(9)]),
      Update(Relative("weekly", HM(6, 0), HM(22, 0)), [weekly_day |-> [kind |-> "bad"]]),
      Update(Relative("monthly", HM(6, 0), HM(22, 0)), [monthly_day |-> Digits(0)]),
      \* a pattern_type and a schedule_type the engine does not know
      Relative("yearly", HM(6, 0), HM(22, 0)),
      [board_name |-> <<"p">>, schedule_type |-> "foo",
       start_time |-> HM(6, 0), end_time |-> HM(12, 0)],
      \* no board name
      [board_name |-> <<" ">>, schedule_type |-> "absolute",
       start_datetime |-> Iso(0, 0, ""), end_datetime |-> Iso(1, 0, "")] }

\* the id of the schedule of InitItems, and an id no schedule has
ItemScheduleIds == {0, 1}

CreateItemOfAnyForm ==
    /\ Records(itemsFile) < MaxStoredItems
    /\ \E schedule_id \in ItemScheduleIds, data \in ItemPayloads :
          LET r == create_schedule_item(schedule_id, data, StoreNow, clock, GoodIo, GoodIo)
          IN  /\ probe' = [fn |-> "create_schedule_item", data |-> data, status |-> r.status]
              /\ Leaves(r.store)
    /\ UNCHANGED clock
    /\ UNCHANGED crudFrame

UpdateItemOfAnyForm ==
    /\ \E schedule_id \in ItemScheduleIds, item_id \in RequestIds, data \in ItemPayloads :
          LET r == update_schedule_item(schedule_id, item_id, data, StoreNow, GoodIo)
          IN  /\ probe' = [fn |-> "update_schedule_item", data |-> data, status |-> r.status]
              /\ Leaves(r.store)
    /\ UNCHANGED clock
    /\ UNCHANGED crudFrame

\* one schedule has been created, no item yet
InitItems ==
    /\ probe = NoProbe
    /\ now = At(0, 0, 0, 0)
    /\ schedulesFile = [kind |-> "json", shape |-> "array",
                        value |-> <<[id |-> 0, name |-> <<"A">>, active |-> TRUE]>>]
    /\ itemsFile \in {[kind |-> "missing"], [kind |-> "json", shape |-> "array", value |-> <<>>]}
    /\ backups = NoBackups
    /\ writer = Idle
    /\ clock = 0
    /\ scripts = {}
    /\ pc = "idle"
    /\ active_item = [kind |-> "pending"]
    /\ primary = NoCall
    /\ fallback = NoFallback
    /\ trace = <<>>
    /\ events = <<>>

NextItems ==
    \/ Tick
    \/ CreateItemOfAnyForm
    \/ UpdateItemOfAnyForm

SpecItems == InitItems /\ [][NextItems]_vars

-----------------------------------------------------------------------------
(* The matchers evaluated on their own: one call, its arguments and result *)

Zones == {"", "Z", "+02:00"}

AbsDays == {0, 1}

AbsClocks == {0, 1, 12 * 3600, 24 * 3600 - 1}

IsoStrings ==
    {[kind |-> "bad"]} \cup {Iso(d, c, z) : d \in AbsDays, c \in AbsClocks, z \in Zones}

AbsNows == {[ord |-> d, sec |-> c] : d \in AbsDays, c \in AbsClocks}

RelClocks == {0, 5 * 3600 + 1800, 6 * 3600, 6 * 3600 + 30, 12 * 3600, 22 * 3600,
              23 * 3600 + 1800}

RelNows == {[ord |-> d, sec |-> c] : d \in 0..MaxDay, c \in RelClocks}

\* "24:00" is rejected by strptime and accepted by int()
ClockStrings == {HM(6, 0), HM(12, 0), HM(22, 0), HM(24, 0), [kind |-> "bad"]}

\* pattern_type with the keyword arguments is_item_active_now passes for it
Patterns ==
    {[pattern_type |-> "daily", kwargs |-> <<>>], [pattern_type |-> "yearly", kwargs |-> <<>>]}
        \cup {[pattern_type |-> p, kwargs |-> <<>>] : p \in {"weekly", "monthly"}}
        \cup {[pattern_type |-> "weekly", kwargs |-> [weekly_day |-> w]] : w \in 0..8}
        \cup {[pattern_type |-> "monthly", kwargs |-> [monthly_day |-> d]] : d \in 1..31}

EvalAbsolute ==
    /\ probe = NoProbe
    /\ \E current_time \in AbsNows, start \in IsoStrings, end \in IsoStrings :
          probe' = [fn |-> "is_time_in_absolute_range", current_time |-> current_time,
                    start |-> start, end |-> end,
                    ret |-> is_time_in_absolute_range(current_time, start, end)]
    /\ UNCHANGED engineVars

EvalAbsoluteSrc ==
    /\ probe = NoProbe
    /\ \E current_time \in AbsNows, start \in IsoStrings, end \in IsoStrings,
          pytz_ok \in BOOLEAN :
          probe' = [fn |-> "src_is_time_in_absolute_range", current_time |-> current_time,
                    start |-> start, end |-> end, pytz_ok |-> pytz_ok,
                    ret |-> src_is_time_in_absolute_range(current_time, start, end, pytz_ok)]
    /\ UNCHANGED engineVars

EvalRelative ==
    /\ probe = NoProbe
    /\ \E current_time \in RelNows, p \in Patterns, start \in ClockStrings,
          end \in ClockStrings :
          probe' = [fn |-> "is_time_in_relative_range", current_time |-> current_time,
                    pattern_type |-> p.pattern_type, kwargs |-> p.kwargs,
                    start |-> start, end |-> end,
                    ret |-> is_time_in_relative_range(current_time, p.pattern_type,
                                                      start, end, p.kwargs)]
    /\ UNCHANGED engineVars

EvalRelativeSrc ==
    /\ probe = NoProbe
    /\ \E current_time \in RelNows, p \in Patterns, start \in ClockStrings,
          end \in ClockStrings :
          probe' = [fn |-> "src_is_time_in_relative_range", current_time |-> current_time,
                    pattern_type |-> p.pattern_type, kwargs |-> p.kwargs,
                    start |-> start, end |-> end,
                    ret |-> src_is_time_in_relative_range(current_time, p.pattern_type,
                                                          start, end, p.kwargs)]
    /\ UNCHANGED engineVars

InitMatch ==
    /\ probe = NoProbe
    /\ now = At(0, 0, 0, 0)
    /\ schedulesFile = [kind |-> "missing"]
    /\ itemsFile = [kind |-> "missing"]
    /\ scripts = {}
    /\ pc = "idle"
    /\ active_item = [kind |-> "pending"]
    /\ primary = NoCall
    /\ fallback = NoFallback
    /\ trace = <<>>
    /\ events = <<>>
    /\ backups = NoBackups
    /\ writer = Idle
    /\ clock = 0

NextMatch ==
    \/ EvalAbsolute
    \/ EvalAbsoluteSrc
    \/ EvalRelative
    \/ EvalRelativeSrc

SpecMatch == InitMatch /\ [][NextMatch]_vars

-----------------------------------------------------------------------------
(* Properties of the matchers, checked under SpecMatch *)

IsoWall(s) == s.ord * (24 * 3600) + s.sec

ClockOf(s) == s.h * 3600 + s.m * 60

ValidClock(s) == s.kind = "hm" /\ s.h \in 0..23 /\ s.m \in 0..59

\* Monday = 1 .. Sunday = 7; 2025-04-01 (ordinal 0) is a Tuesday
IsoWeekday(dt) == ((dt.ord + 1) % 7) + 1

\* the clock-window test of the specification
ClockWindow(startClock, endClock, nowClock) ==
    IF startClock <= endClock
    THEN startClock <= nowClock /\ nowClock <= endClock
    ELSE nowClock >= startClock \/ nowClock <= endClock

ProbeRelative == probe.fn \in {"is_time_in_relative_range", "src_is_time_in_relative_range"}

\* the same call with pattern_type daily: the clock-window test of that copy
ProbeWindowPasses ==
    IF probe.fn = "is_time_in_relative_range"
    THEN is_time_in_relative_range(probe.current_time, "daily", probe.start, probe.end, <<>>)
    ELSE src_is_time_in_relative_range(probe.current_time, "daily", probe.start, probe.end, <<>>)

\* C4: is_time_in_absolute_range(now, start, end) is true iff start <= now <= end,
\* both bounds inclusive: for the first copy on the wall-clock values of every
\* pair of well-formed bounds, for the second copy on every pair of bounds
\* that carry no zone.
C4_AbsoluteInclusive ==
    /\ (/\ probe.fn = "is_time_in_absolute_range"
        /\ probe.start.kind = "iso" /\ probe.end.kind = "iso")
          => (probe.ret <=> /\ IsoWall(probe.start) <= Wall(probe.current_time)
                            /\ Wall(probe.current_time) <= IsoWall(probe.end))
    /\ (/\ probe.fn = "src_is_time_in_absolute_range"
        /\ probe.start.kind = "iso" /\ probe.end.kind = "iso"
        /\ probe.start.zone = "" /\ probe.end.zone = "")
          => (probe.ret <=> /\ IsoWall(probe.start) <= Wall(probe.current_time)
                            /\ Wall(probe.current_time) <= IsoWall(probe.end))

\* C4 witness: start < end, now is exactly start, and the call returned True
C4_Witness ==
    /\ probe.fn = "is_time_in_absolute_range"
    /\ probe.start.kind = "iso" /\ probe.end.kind = "iso"
    /\ IsoWall(probe.start) < IsoWall(probe.end)
    /\ Wall(probe.current_time) = IsoWall(probe.start)
    /\ probe.ret

\* C5: for pattern_type daily, is_time_in_relative_range (src/scheduler.py) is
\* true iff the clock-window test passes: start <= now <= end for a same-day
\* window, now >= start or now <= end for an overnight window; 22:00-06:00
\* matches at 23:30 and 05:30 and not at 12:00.
C5_DailyClockWindow ==
    (/\ probe.fn = "is_time_in_relative_range"
     /\ probe.pattern_type = "daily"
     /\ ValidClock(probe.start) /\ ValidClock(probe.end))
       => /\ probe.ret <=> ClockWindow(ClockOf(probe.start), ClockOf(probe.end),
                                       probe.current_time.sec)
          /\ (probe.start = HM(22, 0) /\ probe.end = HM(6, 0))
                => /\ probe.current_time.sec = 23 * 3600 + 1800 => probe.ret
                   /\ probe.current_time.sec = 5 * 3600 + 1800 => probe.ret
                   /\ probe.current_time.sec = 12 * 3600 => ~probe.ret

\* C5 witness: the overnight window 22:00-06:00 evaluated at 05:30 returned True
C5_Witness ==
    /\ probe.fn = "is_time_in_relative_range"
    /\ probe.pattern_type = "daily"
    /\ probe.start = HM(22, 0) /\ probe.end = HM(6, 0)
    /\ probe.current_time.sec = 5 * 3600 + 1800
    /\ probe.ret

\* C6: for pattern_type weekly and weekly_day in 1..7, both copies of
\* is_time_in_relative_range are true iff the clock-window test passes and the
\* weekday of now equals weekly_day with Monday = 1 .. Sunday = 7; weekly_day = 3
\* on a Tuesday inside the window does not match.
C6_WeeklyAnchor ==
    (/\ ProbeRelative
     /\ probe.pattern_type = "weekly"
     /\ Has(probe.kwargs, "weekly_day")
     /\ probe.kwargs.weekly_day \in 1..7)
       => /\ probe.ret <=> (ProbeWindowPasses
                            /\ IsoWeekday(probe.current_time) = probe.kwargs.weekly_day)
          /\ (probe.kwargs.weekly_day = 3 /\ IsoWeekday(probe.current_time) = 2)
                => ~probe.ret

\* C6 witness: weekly_day = 3 evaluated on a Wednesday inside the window returned True
C6_Witness ==
    /\ ProbeRelative
    /\ probe.pattern_type = "weekly"
    /\ Has(probe.kwargs, "weekly_day")
    /\ probe.kwargs.weekly_day = 3
    /\ IsoWeekday(probe.current_time) = 3
    /\ ProbeWindowPasses
    /\ probe.ret

\* C7: for pattern_type monthly, both copies of is_time_in_relative_range are
\* true iff the clock-window test passes and the day of the month of now equals
\* monthly_day exactly; monthly_day = 31 matches on no day of April (30 days).
C7_MonthlyNoClamp ==
    (/\ ProbeRelative
     /\ probe.pattern_type = "monthly"
     /\ Has(probe.kwargs, "monthly_day"))
       => /\ probe.ret <=> (ProbeWindowPasses
                            /\ day(probe.current_time) = probe.kwargs.monthly_day)
          /\ (probe.kwargs.monthly_day = 31 /\ probe.current_time.ord < 30)
                => ~probe.ret

\* C7 witness: monthly_day = 31 evaluated on 30 April inside the window returned False
C7_Witness ==
    /\ ProbeRelative
    /\ probe.pattern_type = "monthly"
    /\ Has(probe.kwargs, "monthly_day")
    /\ probe.kwargs.monthly_day = 31
    /\ probe.current_time.ord = 29
    /\ ProbeWindowPasses
    /\ ~probe.ret

-----------------------------------------------------------------------------
(* Properties of resolution and dispatch, checked under Spec *)

LoadedSchedules == load_schedules(schedulesFile).value

LoadedItems == load_schedule_items(itemsFile).value

IsActiveSchedule(s) == Get(s, "active", FALSE)

\* <<i, j>>: schedule i is active, item j carries its id and matches now
MatchPairs ==
    {p \in (1..Len(LoadedSchedules)) \X (1..Len(LoadedItems)) :
        /\ IsActiveSchedule(LoadedSchedules[p[1]])
        /\ Has(LoadedSchedules[p[1]], "id")
        /\ Has(LoadedItems[p[2]], "schedule_id")
        /\ LoadedItems[p[2]].schedule_id = LoadedSchedules[p[1]].id
        /\ is_item_active_now(LoadedItems[p[2]], now)}

\* the first of them, schedule-major then item-minor
FirstOf(pairs) ==
    CHOOSE p \in pairs :
        \A q \in pairs : p[1] < q[1] \/ (p[1] = q[1] /\ p[2] <= q[2])

FirstPair == FirstOf(MatchPairs)

\* C1: whenever find_active_schedule_item returns, it returns the first item,
\* schedule-major (active schedules in stored order) then item-minor (items in
\* stored order), for which is_item_active_now is true, and None when there is
\* no active schedule, no item or no matching item.
C1_FirstMatch ==
    LET pairs == MatchPairs
    IN  /\ active_item.kind = "item"
              => pairs # {} /\ active_item.item = LoadedItems[FirstOf(pairs)[2]]
        /\ active_item.kind = "none" => pairs = {}

\* C1 witness: two active schedules each have a matching item, the item of the
\* later schedule is stored before the item of the earlier one, and the item of
\* the earlier schedule was returned
C1_Witness ==
    /\ active_item.kind = "item"
    /\ active_item.item = LoadedItems[FirstPair[2]]
    /\ \E q \in MatchPairs : q[1] > FirstPair[1] /\ q[2] < FirstPair[2]

ActiveIds ==
    {LoadedSchedules[i].id :
        i \in {k \in 1..Len(LoadedSchedules) :
                  /\ IsActiveSchedule(LoadedSchedules[k])
                  /\ Has(LoadedSchedules[k], "id")}}

\* C2: an item returned by find_active_schedule_item has the schedule_id of a
\* loaded schedule with active == true; resolution raises only on a record that
\* lacks a key it indexes (id, name, board_name), never because an item names an
\* inactive schedule or no schedule.
C2_ReturnedItemOfActiveSchedule ==
    /\ active_item.kind = "item"
          => /\ Has(active_item.item, "schedule_id")
             /\ active_item.item.schedule_id \in ActiveIds
    /\ active_item.kind = "raise"
          => \/ \E i \in 1..Len(LoadedSchedules) :
                   ~Has(LoadedSchedules[i], "id") \/ ~Has(LoadedSchedules[i], "name")
             \/ \E j \in 1..Len(LoadedItems) : ~Has(LoadedItems[j], "board_name")

\* C2 witness: the loop over active schedules ran, an item that matches now names
\* an inactive or missing schedule, and resolution returned without that item
C2_Witness ==
    /\ active_item.kind \in {"item", "none"}
    /\ ActiveIds # {}
    /\ \E j \in 1..Len(LoadedItems) :
          /\ is_item_active_now(LoadedItems[j], now)
          /\ LoadedItems[j].schedule_id \notin ActiveIds
          /\ active_item.kind = "item" => active_item.item # LoadedItems[j]

\* C3 as stated: in every run in which resolution finds no matching item, the
\* engine dispatches the default board 'dashboard' through execute_board_script.
C3_DefaultAlwaysDispatched ==
    (pc = "done" /\ active_item.kind = "none")
       => primary.called /\ primary.board = "dashboard"

\* C3: in every run in which resolution finds no matching item, the engine
\* dispatches 'dashboard' through execute_board_script exactly when the
\* dashboard script exists; a failure of that dispatch is reported through
\* display_error like that of a matched board; when the script does not exist
\* nothing is dispatched and nothing is reported.
C3_DefaultDispatchedWhenScriptExists ==
    (pc = "done" /\ active_item.kind = "none")
       => /\ primary.called <=> "dashboard" \in scripts
          /\ primary.called => primary.board = "dashboard" /\ primary.returned
          /\ (primary.called /\ ~primary.ret) => fallback.called
          /\ ~primary.called => ~fallback.called

\* C3 witness: no match, the dashboard was dispatched as the primary board, its
\* child exited non-zero and display_error was entered
C3_Witness ==
    /\ pc = "done" /\ active_item.kind = "none"
    /\ primary.called /\ primary.board = "dashboard"
    /\ primary.outcome = "exit" /\ primary.code # 0
    /\ fallback.called

\* the start and end fields schedule_type requires
HasWindowFields(item) ==
    LET schedule_type == Get(item, "schedule_type", "absolute")
    IN  /\ schedule_type = "absolute"
            => Has(item, "start_datetime") /\ Has(item, "end_datetime")
        /\ schedule_type = "relative"
            => Has(item, "start_time") /\ Has(item, "end_time")

\* the day field pattern_type requires
HasDayField(item) ==
    Get(item, "schedule_type", "absolute") = "relative"
       => /\ Get(item, "pattern_type", "daily") = "weekly" => Has(item, "weekly_day")
          /\ Get(item, "pattern_type", "daily") = "monthly" => Has(item, "monthly_day")

C9_SuccessIffExitZero ==
    primary.returned
       => /\ primary.ret <=> (/\ primary.board \in scripts
                              /\ primary.outcome = "exit"
                              /\ primary.code = 0)
          /\ primary.board \notin scripts <=> primary.outcome = "not_found"
          /\ primary.outcome \in {"not_found", "spawn_error", "timeout", "exit"}
          /\ primary.outcome \in {"not_found", "spawn_error", "timeout"} => ~primary.ret

\* C9 witness: the child exited with a non-zero code and False was returned
C9_Witness ==
    /\ primary.returned
    /\ primary.outcome = "exit" /\ primary.code # 0
    /\ ~primary.ret

\* C10 as stated: in every engine run the fallback board is attempted if and
\* only if the primary dispatch failed.
C10_FallbackIffPrimaryFailed ==
    pc = "done"
       => (fallback.called <=> (primary.called /\ primary.returned /\ ~primary.ret))

-----------------------------------------------------------------------------
(* The fallback and the shape of a run *)

Count(seq, e) == Cardinality({k \in 1..Len(seq) : seq[k] = e})

\* position of the first occurrence of e in seq, 0 when there is none
FirstAt(seq, e) ==
    LET at == {k \in 1..Len(seq) : seq[k] = e}
    IN  IF at = {} THEN 0 ELSE CHOOSE k \in at : \A j \in at : k <= j

\* C11: display_error runs at most once in a run and starts at most one
\* dashboard child; whatever becomes of that child (script missing, spawn
\* error, timeout, any exit code) display_error returns, nothing is raised to
\* run_scheduler and the run is in Done.
C11_FallbackFailureAbsorbed ==
    /\ Count(events, "display_error") <= 1
    /\ Count(events, "spawn_fallback") <= 1
    /\ fallback.called <=> Count(events, "display_error") = 1
    /\ pc # "crashed"
    /\ fallback.outcome \in {"not_found", "spawn_error", "timeout", "exit"}
          => fallback.returned /\ pc = "done"
    /\ fallback.returned => pc = "done"

C11_Witness ==
    /\ pc = "done"
    /\ fallback.outcome = "timeout"
    /\ primary.outcome = "exit"
    /\ Count(events, "display_error") = 1

\* C12: a run resolves exactly once and starts at most two children, the
\* primary one and then at most one fallback one; the fallback child is
\* started only after the primary child has exited or been killed, and the
\* two are never running at the same time.
C12_OneResolveTwoChildrenInSequence ==
    /\ Count(events, "find_active_schedule_item") =
          (IF pc \in {"start", "resolving"} THEN 0 ELSE 1)
    /\ Count(events, "spawn_primary") <= 1
    /\ Count(events, "spawn_fallback") <= 1
    /\ Count(events, "spawn_primary") = 1
          => FirstAt(events, "find_active_schedule_item") < FirstAt(events, "spawn_primary")
    /\ Count(events, "spawn_fallback") = 1
          => /\ FirstAt(events, "find_active_schedule_item") < FirstAt(events, "spawn_fallback")
             /\ FirstAt(events, "spawn_primary") < FirstAt(events, "spawn_fallback")
             /\ primary.child # "running"
    /\ ~(primary.child = "running" /\ fallback.child = "running")

C12_Witness ==
    /\ pc = "done"
    /\ events = <<"find_active_schedule_item", "spawn_primary", "display_error",
                  "spawn_fallback">>
    /\ primary.child = "exited"
    /\ fallback.child = "exited"

Edges(seq) == {<<seq[k], seq[k + 1]>> : k \in 1..(Len(seq) - 1)}

\* the transitions the state machine of the specification allows
StatedEdges ==
    { <<"Start", "Resolving">>,
      <<"Resolving", "Dispatching">>, <<"Resolving", "DispatchingDefault">>,
      <<"Dispatching", "Done">>, <<"Dispatching", "Reporting">>,
      <<"DispatchingDefault", "Done">>, <<"DispatchingDefault", "Reporting">>,
      <<"Reporting", "Done">> }

\* C13 as stated: a run follows only Start -> Resolving -> (Dispatching |
\* DispatchingDefault) -> (Done | Reporting -> Done).
C13_OnlyStatedTransitions == Edges(trace) \subseteq StatedEdges

\* C13: a run follows only the stated transitions and two more out of
\* Resolving: Resolving -> Done, taken exactly when nothing matched and the
\* dashboard script does not exist, and Resolving -> Reporting, taken exactly
\* when resolution raised; Dispatching is entered on a match,
\* DispatchingDefault on no match, and Reporting is followed by Done only.
C13_TransitionsOfARun ==
    /\ trace[1] = "Start"
    /\ Edges(trace) \subseteq
          StatedEdges \cup {<<"Resolving", "Done">>, <<"Resolving", "Reporting">>}
    /\ Len(trace) >= 3 =>
          /\ trace[3] = "Dispatching" <=> active_item.kind = "item"
          /\ trace[3] = "DispatchingDefault"
                <=> active_item.kind = "none" /\ script_exists("dashboard")
          /\ trace[3] = "Done"
                <=> active_item.kind = "none" /\ ~script_exists("dashboard")
          /\ trace[3] = "Reporting" <=> active_item.kind = "raise"
    /\ pc = "done" <=> trace[Len(trace)] = "Done"
    /\ Count(trace, "Done") <= 1

C13_Witness ==
    /\ pc = "done"
    /\ trace = <<"Start", "Resolving", "DispatchingDefault", "Reporting", "Done">>

\* C15: a child that outlives its timeout has been killed when the timeout is
\* reported, and the call counts as a failure; once execute_board_script or
\* display_error has returned, and in Done, no child of the run is running.
C15_NoChildOutlivesItsCall ==
    /\ primary.outcome = "timeout" =>
          primary.child = "killed" /\ ~primary.ret /\ fallback.called
    /\ fallback.outcome = "timeout" => fallback.child = "killed"
    /\ primary.returned => primary.child # "running"
    /\ fallback.returned => fallback.child # "running"
    /\ fallback.called => primary.child # "running"
    /\ pc = "done" => primary.child # "running" /\ fallback.child # "running"

C15_Witness ==
    /\ pc = "done"
    /\ primary.outcome = "timeout"
    /\ primary.returned
    /\ fallback.outcome = "timeout"

\* C16: no step of an engine run changes the schedules document, the
\* schedule-items document or a .backup file.
C16_EngineOnlyReads ==
    [][schedulesFile' = schedulesFile /\ itemsFile' = itemsFile /\ backups' = backups]_vars

C16_Witness ==
    /\ pc = "done"
    /\ schedulesFile.kind = "malformed"
    /\ itemsFile.kind = "missing"
    /\ fallback.returned

-----------------------------------------------------------------------------
(* Termination and the shape of what the loaders return *)

OddShaped(file) ==
    /\ file.kind = "json"
    /\ ~AllObjects([shape |-> file.shape, value |-> file.value])

\* C14: whatever the two documents contain and whatever the children do, the
\* run reaches Done, and no exception leaves run_scheduler.
C14_RunReachesDone == <>(pc = "done") /\ [](pc # "crashed")

C14_Witness ==
    /\ pc = "done"
    /\ OddShaped(schedulesFile)
    /\ active_item.kind = "raise"
    /\ fallback.outcome = "timeout"

\* C19 as stated: once the documents are loaded, what the resolver holds for
\* each of them is an array of records, whatever the document contains.
C19_ResolverReceivesArrayOfRecords ==
    active_item.kind # "pending" =>
        /\ AllObjects(load_schedules(schedulesFile))
        /\ AllObjects(load_schedule_items(itemsFile))

-----------------------------------------------------------------------------
(* Loading documents that are absent, blank or corrupted *)

LoaderNames ==
    {"load_schedules", "load_schedule_items", "src_load_schedules",
     "src_load_schedule_items", "bp_load_schedules", "bp_load_schedule_items"}

EmptyArrayDocument == [kind |-> "json", shape |-> "array", value |-> <<>>]

\* what the loader fn returns on a document containing []
LoadsOfEmptyArray(fn) ==
    CASE fn = "load_schedules" -> load_schedules(EmptyArrayDocument)
      [] fn = "load_schedule_items" -> load_schedule_items(EmptyArrayDocument)
      [] fn = "src_load_schedules" -> src_load_schedules(EmptyArrayDocument)
      [] fn = "src_load_schedule_items" -> src_load_schedule_items(EmptyArrayDocument)
      [] fn = "bp_load_schedules" ->
            bp_load_schedules(EmptyArrayDocument, [kind |-> "missing"],
                              [read |-> TRUE, rename |-> TRUE, write |-> "ok"]).ret
      [] OTHER ->
            bp_load_schedule_items(EmptyArrayDocument, [kind |-> "missing"],
                                   [read |-> TRUE, rename |-> TRUE, write |-> "ok"]).ret

\* C18: every loader (the web application's and both engines'), called on a
\* document that is missing or blank, raises nothing and returns the empty
\* array, which is what it returns on a document containing [], whatever
\* the file system does during the call.
C18_MissingOrBlankLoadsEmpty ==
    (probe.fn \in LoaderNames /\ probe.file.kind \in {"missing", "blank"}) =>
        /\ ~probe.raised
        /\ probe.ret = JsonArray(<<>>)
        /\ probe.ret = LoadsOfEmptyArray(probe.fn)

C18_Witness ==
    /\ probe.fn = "bp_load_schedules"
    /\ probe.file.kind = "missing"
    /\ ~probe.raised
    /\ schedulesFile.kind = "missing"

\* C20 as stated: a loader of the web application called on a document of
\* malformed JSON returns the empty array and raises nothing, also when the
\* rename to the backup or the rewrite of the document fails.
C20_MalformedLoadsEmptyNeverRaises ==
    (probe.fn \in {"bp_load_schedules", "bp_load_schedule_items"}
        /\ probe.file.kind = "malformed") =>
        /\ ~probe.raised
        /\ probe.ret = JsonArray(<<>>)

-----------------------------------------------------------------------------
(* Zoned bounds of an absolute window *)

\* C30: is_time_in_absolute_range compares local-naive values: the offset of a
\* zoned bound is stripped, not converted, so for well-formed bounds the result
\* is start <= now <= end on the wall-clock fields alone, whatever offset is
\* attached to either bound, in both copies of the matcher.
C30_ZoneStrippedNotConverted ==
    (/\ probe.fn \in {"is_time_in_absolute_range", "src_is_time_in_absolute_range"}
     /\ probe.start.kind = "iso" /\ probe.end.kind = "iso")
        => (probe.ret <=> /\ IsoWall(probe.start) <= Wall(probe.current_time)
                          /\ Wall(probe.current_time) <= IsoWall(probe.end))

-----------------------------------------------------------------------------
(* Recovery of a corrupted document and its backup *)

\* the document and the backup a loader of the web application works on
DocumentOf(fn) == IF fn = "bp_load_schedules" THEN schedulesFile ELSE itemsFile

BackupOf(fn) == IF fn = "bp_load_schedules" THEN backups.schedules ELSE backups.items

ProbeRecovered ==
    /\ probe.fn \in {"bp_load_schedules", "bp_load_schedule_items"}
    /\ probe.file.kind = "malformed"
    /\ probe.io.read /\ probe.io.rename /\ probe.io.write = "ok"

C22_BackupNeverOverwritten ==
    [][/\ backups.schedules.kind # "missing" => backups'.schedules = backups.schedules
       /\ backups.items.kind # "missing" => backups'.items = backups.items]_vars

-----------------------------------------------------------------------------
(* A load of the engine during a save of the editor *)

EngineLoadersOf(document) ==
    IF document = "schedules"
    THEN {"load_schedules", "src_load_schedules"}
    ELSE {"load_schedule_items", "src_load_schedule_items"}

\* what the engine loader fn obtains from a document
EngineLoads(fn, file) ==
    CASE fn = "load_schedules" -> load_schedules(file)
      [] fn = "load_schedule_items" -> load_schedule_items(file)
      [] fn = "src_load_schedules" -> src_load_schedules(file)
      [] OTHER -> src_load_schedule_items(file)

\* C23: a load of the engine that runs while a save of the same document is
\* under way obtains the collection of the complete old document or the
\* complete new collection, never one that is neither.
C23_EngineLoadsOldOrNew ==
    (writer.kind = "open" /\ probe.fn \in EngineLoadersOf(writer.document))
        => \/ probe.ret = EngineLoads(probe.fn, writer.old)
           \/ probe.ret = writer.new

-----------------------------------------------------------------------------
(* The stored records after requests to the web application *)

\* the records of a document, none when it does not hold an array
Stored(file) == IF file.kind = "json" /\ file.shape = "array" THEN file.value ELSE <<>>

StoredScheduleIds == {Stored(schedulesFile)[i].id : i \in DOMAIN Stored(schedulesFile)}

\* C24: after every request, whatever its status, every stored item has the
\* schedule_id of a stored schedule, and after delete_schedule(S) no stored
\* item has schedule_id S.
C24_NoOrphanedItem ==
    /\ \A i \in DOMAIN Stored(itemsFile) :
          Stored(itemsFile)[i].schedule_id \in StoredScheduleIds
    /\ probe.fn = "delete_schedule" =>
          \A i \in DOMAIN Stored(itemsFile) :
              Stored(itemsFile)[i].schedule_id # probe.schedule_id

\* C25: after create_schedule and update_schedule requests on a store that
\* was empty, every stored schedule has a non-empty name and no two stored
\* schedules have the same name.
C25_NamesNonEmptyAndUnique ==
    LET schedules == Stored(schedulesFile)
    IN  /\ \A i \in DOMAIN schedules : schedules[i].name # <<>>
        /\ \A i, j \in DOMAIN schedules : i # j => schedules[i].name # schedules[j].name

\* C26: no two stored schedules have the same id and no two stored items have
\* the same id, also when two are created in the same millisecond.
C26_IdsUnique ==
    /\ \A i, j \in DOMAIN Stored(schedulesFile) :
          i # j => Stored(schedulesFile)[i].id # Stored(schedulesFile)[j].id
    /\ \A i, j \in DOMAIN Stored(itemsFile) :
          i # j => Stored(itemsFile)[i].id # Stored(itemsFile)[j].id

-----------------------------------------------------------------------------
(* The forms of the stored items *)

ItemRequests == {"create_schedule_item", "update_schedule_item"}

\* a relative window whose end is earlier in the day than its start
OvernightBody(data) ==
    /\ Get(data, "schedule_type", "absolute") = "relative"
    /\ Has(data, "start_time") /\ Has(data, "end_time")
    /\ ValidClock(data.start_time) /\ ValidClock(data.end_time)
    /\ ClockOf(data.end_time) < ClockOf(data.start_time)

\* C27: a request that creates or updates a relative item with end_time
\* earlier than start_time (22:00-06:00), on a schedule or item that exists,
\* is accepted, and the item is stored with that window.
C27_OvernightWindowAccepted ==
    (/\ probe.fn \in ItemRequests
     /\ probe.status # 404
     /\ OvernightBody(probe.data))
        => /\ probe.status = 200
           /\ \E i \in DOMAIN Stored(itemsFile) :
                 /\ Has(Stored(itemsFile)[i], "start_time")
                 /\ Stored(itemsFile)[i].start_time = probe.data.start_time
                 /\ Stored(itemsFile)[i].end_time = probe.data.end_time

\* end_dt > start_dt as Python compares the two datetimes the strings parse to
LaterDatetime(end_datetime, start_datetime) ==
    LET start_dt == fromisoformat(ReplaceZ(start_datetime))
        end_dt == fromisoformat(ReplaceZ(end_datetime))
    IN  /\ start_dt.ok /\ end_dt.ok
        /\ start_dt.aware = end_dt.aware
        /\ IF start_dt.aware THEN Instant(end_dt) > Instant(start_dt)
                             ELSE Wall(end_dt) > Wall(start_dt)

\* C28: after any sequence of create_schedule_item and update_schedule_item
\* requests, every stored item with schedule_type absolute has start_datetime
\* and end_datetime, and its end_datetime is later than its start_datetime.
C28_AbsoluteItemsWellOrdered ==
    \A i \in DOMAIN Stored(itemsFile) :
        LET item == Stored(itemsFile)[i]
        IN  item.schedule_type = "absolute" =>
                /\ Has(item, "start_datetime") /\ Has(item, "end_datetime")
                /\ LaterDatetime(item.end_datetime, item.start_datetime)

\* C28 witness: an update has been accepted and left an absolute item whose
\* bounds carry two different zones
C28_Witness ==
    /\ probe.fn = "update_schedule_item"
    /\ probe.status = 200
    /\ \E i \in DOMAIN Stored(itemsFile) :
          /\ Stored(itemsFile)[i].schedule_type = "absolute"
          /\ Stored(itemsFile)[i].start_datetime.zone = "+02:00"
          /\ Stored(itemsFile)[i].end_datetime.zone = "Z"

\* C29: after any sequence of create_schedule_item and update_schedule_item
\* requests, every stored item has schedule_type absolute or relative, every
\* relative item a pattern_type among daily, weekly, monthly, every weekly
\* item a weekly_day in 1..7 and every monthly item a monthly_day in 1..31.
C29_StoredItemsOfKnownForm ==
    \A i \in DOMAIN Stored(itemsFile) :
        LET item == Stored(itemsFile)[i]
        IN  /\ item.schedule_type \in {"absolute", "relative"}
            /\ item.schedule_type = "relative" =>
                  /\ Has(item, "pattern_type")
                  /\ item.pattern_type \in {"daily", "weekly", "monthly"}
                  /\ item.pattern_type = "weekly" =>
                        Has(item, "weekly_day") /\ item.weekly_day \in 1..7
                  /\ item.pattern_type = "monthly" =>
                        Has(item, "monthly_day") /\ item.monthly_day \in 1..31

-----------------------------------------------------------------------------
(* The two copies of the relative matcher *)

\* C34: on every now, pattern_type, start_time, end_time and day argument the
\* is_time_in_relative_range of src/scheduler.py and the one of
\* src/src/scheduler.py return the same boolean.
C34_RelativeCopiesAgree ==
    /\ probe.fn = "is_time_in_relative_range" =>
          probe.ret = src_is_time_in_relative_range(probe.current_time, probe.pattern_type,
                                                    probe.start, probe.end, probe.kwargs)
    /\ probe.fn = "src_is_time_in_relative_range" =>
          probe.ret = is_time_in_relative_range(probe.current_time, probe.pattern_type,
                                                probe.start, probe.end, probe.kwargs)

-----------------------------------------------------------------------------
(* Validation of the store when the application starts *)

ParsesAsJson(file) == file.kind = "json"

ProbeValidated == probe.fn = "validate_and_fix_json_files" /\ ~probe.io_failed

\* C38: when validate_and_fix_json_files returns and no operation on the file
\* system has failed, both documents exist and parse as JSON, and it has
\* returned failure exactly when a document held invalid JSON on entry; a
\* call on two documents that parse returns success and changes no document
\* and no backup.
C38_ValidationEstablishesValidStore ==
    /\ [](ProbeValidated =>
            /\ ParsesAsJson(schedulesFile) /\ ParsesAsJson(itemsFile)
            /\ ~probe.ret <=> \E i \in 1..2 : probe.files[i].kind = "malformed")
    /\ [][(/\ probe'.fn = "validate_and_fix_json_files"
           /\ ~probe'.io_failed
           /\ ParsesAsJson(probe'.files[1]) /\ ParsesAsJson(probe'.files[2]))
            => /\ probe'.ret
               /\ schedulesFile' = schedulesFile
               /\ itemsFile' = itemsFile
               /\ backups' = backups]_vars

\* C38 witness: a call has followed the call that reset a corrupted schedule
\* document, found two documents that parse and returned success, the backup
\* of the first call still in place
C38_Witness ==
    /\ probe.fn = "validate_and_fix_json_files"
    /\ ~probe.io_failed
    /\ probe.files[1] = EmptyArrayDocument
    /\ ParsesAsJson(probe.files[2])
    /\ probe.ret
    /\ backups.schedules = Corrupt("{")
    /\ schedulesFile = EmptyArrayDocument

-----------------------------------------------------------------------------
(* Records the resolution does not depend on *)

\* the sequence without its element at position k
Without(seq, k) == [i \in 1..(Len(seq) - 1) |-> IF i < k THEN seq[i] ELSE seq[i + 1]]

\* no item of the snapshot belongs to the schedule and matches current_time
NoMatchingItem(schedule, schedule_items, current_time) ==
    \A j \in 1..Len(schedule_items) :
        ~(/\ Has(schedule, "id")
          /\ Get(schedule_items[j], "schedule_id", "") = schedule.id
          /\ is_item_active_now(schedule_items[j], current_time) = TRUE)

Resolved == pc \notin {"start", "resolving"}

\* C35: once the engine has resolved over two arrays of records, the result
\* is the one it gives over the same arrays without any one active schedule
\* that has no matching item (whether or not that schedule has a name), and
\* without any one item that does not match now.
C35_UnmatchedRecordsIrrelevant ==
    LET schedules == load_schedules(schedulesFile)
        schedule_items == load_schedule_items(itemsFile)
    IN  (Resolved /\ AllObjects(schedules) /\ AllObjects(schedule_items)) =>
            /\ \A k \in 1..Len(schedules.value) :
                  (/\ Get(schedules.value[k], "active", FALSE) = TRUE
                   /\ Has(schedules.value[k], "id")
                   /\ NoMatchingItem(schedules.value[k], schedule_items.value, now))
                    => active_item = find_active_schedule_item(
                                        [schedules EXCEPT !.value = Without(schedules.value, k)],
                                        schedule_items, now)
            /\ \A j \in 1..Len(schedule_items.value) :
                  is_item_active_now(schedule_items.value[j], now) # TRUE
                    => active_item = find_active_schedule_item(
                                        schedules,
                                        [schedule_items EXCEPT !.value = Without(schedule_items.value, j)],
                                        now)

-----------------------------------------------------------------------------
(* One engine invocation beside the editor.  find_active_schedule_item is   *)
(* taken apart into its two loads and its loops; between any two steps of   *)
(* the invocation the editor may replace a document.  probe holds the local *)
(* variables "schedules" and "schedule_items" of the call.                  *)

ArrayDocument(v) == [kind |-> "json", shape |-> "array", value |-> v]

SnapshotScheduleRecords == {Schedule("s1", TRUE), Schedule("s2", TRUE)}

SnapshotItemRecords ==
    { MondayWindow("s1", "photo-album"), MondayWindow("s2", "missing-board"),
      Overnight("s1", "dashboard") }

\* what a save of the editor leaves in schedules.json
EditorSchedules ==
    { ArrayDocument(<<>>),
      ArrayDocument(<<Schedule("s2", TRUE)>>),
      ArrayDocument(<<Schedule("s1", FALSE), Schedule("s2", TRUE)>>) }

\* what a save of the editor leaves in schedule-items.json
EditorItems ==
    { ArrayDocument(<<>>),
      ArrayDocument(<<MondayWindow("s2", "missing-board")>>),
      ArrayDocument(<<Overnight("s1", "dashboard"), MondayWindow("s1", "photo-album")>>) }

\* the loops going back to the document each time they need the list
iterated_reread(local, file) == load_schedules(file)

\* the list the loops of find_active_schedule_item go over: the local
\* variable assigned by the load, whatever the document holds by then
iterated(local, file) == local

\* schedules = self.load_schedules()
ReadSchedules ==
    /\ pc = "resolving"
    /\ probe.fn = "none"
    /\ probe' = [fn |-> "find_active_schedule_item", loaded |-> 1,
                 schedules |-> load_schedules(schedulesFile),
                 schedule_items |-> JsonArray(<<>>)]
    /\ events' = Append(events, "load_schedules")
    /\ schedulesFile' = file_after_load(schedulesFile)
    /\ UNCHANGED <<now, backups, writer, clock, itemsFile, scripts, pc, active_item, primary,
                   fallback, trace>>

\* schedule_items = self.load_schedule_items()
ReadScheduleItems ==
    /\ pc = "resolving"
    /\ probe.fn = "find_active_schedule_item" /\ probe.loaded = 1
    /\ probe' = [probe EXCEPT !.loaded = 2, !.schedule_items = load_schedule_items(itemsFile)]
    /\ events' = Append(events, "load_schedule_items")
    /\ itemsFile' = file_after_load(itemsFile)
    /\ UNCHANGED <<now, backups, writer, clock, schedulesFile, scripts, pc, active_item, primary,
                   fallback, trace>>

\* the tests and loops of find_active_schedule_item after the two loads;
\* run_scheduler branches on the result
Evaluate ==
    /\ pc = "resolving"
    /\ probe.fn = "find_active_schedule_item" /\ probe.loaded = 2
    /\ LET r == find_active_schedule_item(iterated(probe.schedules, schedulesFile),
                                          iterated(probe.schedule_items, itemsFile), now)
           calls == Append(events, "find_active_schedule_item")
       IN  /\ active_item' = r
           /\ CASE r.kind = "item" ->
                     /\ pc' = "dispatching"
                     /\ primary' = [NoCall EXCEPT !.board = r.item.board_name]
                     /\ trace' = Append(trace, "Dispatching")
                     /\ events' = calls
                     /\ UNCHANGED fallback
                [] r.kind = "none" /\ default_dispatch ->
                     /\ pc' = "dispatching_default"
                     /\ primary' = [NoCall EXCEPT !.board = "dashboard"]
                     /\ trace' = Append(trace, "DispatchingDefault")
                     /\ events' = calls
                     /\ UNCHANGED fallback
                [] r.kind = "none" /\ ~default_dispatch ->
                     /\ pc' = "done"
                     /\ trace' = Append(trace, "Done")
                     /\ events' = calls
                     /\ UNCHANGED <<primary, fallback>>
                [] OTHER ->
                     /\ EnterDisplayError("engine_error", calls)
                     /\ UNCHANGED primary
    /\ UNCHANGED <<probe, now, backups, writer, clock, schedulesFile, itemsFile, scripts>>

\* a save_schedules of the editor, from its open to the end of its with block
EditorSavesSchedules ==
    /\ pc \notin {"done", "crashed"}
    /\ clock < MaxClock
    /\ \E document \in EditorSchedules :
          /\ document # schedulesFile
          /\ schedulesFile' = document
    /\ clock' = clock + 1
    /\ UNCHANGED <<probe, now, backups, writer, itemsFile, scripts, pc, active_item, primary,
                   fallback, trace, events>>

\* a save_schedule_items of the editor
EditorSavesScheduleItems ==
    /\ pc \notin {"done", "crashed"}
    /\ clock < MaxClock
    /\ \E document \in EditorItems :
          /\ document # itemsFile
          /\ itemsFile' = document
    /\ clock' = clock + 1
    /\ UNCHANGED <<probe, now, backups, writer, schedulesFile, scripts, pc, active_item, primary,
                   fallback, trace, events>>

InitSnapshot ==
    /\ probe = NoProbe
    /\ now \in EngineNows
    /\ schedulesFile \in FileContents(SnapshotScheduleRecords, MaxSchedules)
    /\ itemsFile \in FileContents(SnapshotItemRecords, MaxItems)
    /\ scripts \in ScriptSets
    /\ pc = "start"
    /\ active_item = [kind |-> "pending"]
    /\ primary = NoCall
    /\ fallback = NoFallback
    /\ trace = <<"Start">>
    /\ events = <<>>
    /\ backups = NoBackups
    /\ writer = Idle
    /\ clock = 0

NextSnapshot ==
    \/ Begin
    \/ ReadSchedules
    \/ ReadScheduleItems
    \/ Evaluate
    \/ EditorSavesSchedules
    \/ EditorSavesScheduleItems
    \/ ScriptNotFound
    \/ SpawnPrimary
    \/ SpawnPrimaryError
    \/ PrimaryExit
    \/ PrimaryTimeout
    \/ FallbackNotFound
    \/ SpawnFallback
    \/ SpawnFallbackError
    \/ FallbackExit
    \/ FallbackTimeout

SpecSnapshot == InitSnapshot /\ [][NextSnapshot]_vars

\* C32: in one invocation no document is read twice; once the items have been
\* evaluated each document has been read exactly once, before the
\* evaluation, and the result is the first match in storage order of the
\* lists those reads returned.  A list, once read, is what the document held
\* at the read and does not change when the editor saves afterwards.
C32_OneSnapshotPerInvocation ==
    /\ [](/\ Count(events, "load_schedules") <= 1
          /\ Count(events, "load_schedule_items") <= 1
          /\ Resolved =>
                /\ Count(events, "load_schedules") = 1
                /\ Count(events, "load_schedule_items") = 1
                /\ FirstAt(events, "load_schedules") < FirstAt(events, "find_active_schedule_item")
                /\ FirstAt(events, "load_schedule_items") < FirstAt(events, "find_active_schedule_item")
                /\ active_item = find_active_schedule_item(probe.schedules, probe.schedule_items, now))
    /\ [][/\ (probe'.fn # "none" /\ probe'.loaded = 1 /\ probe # probe')
               => probe'.schedules = load_schedules(schedulesFile)
          /\ (probe'.fn # "none" /\ probe'.loaded = 2 /\ probe # probe')
               => /\ probe'.schedule_items = load_schedule_items(itemsFile)
                  /\ probe'.schedules = probe.schedules]_vars

\* C32 witness: the editor has saved after the loads and the invocation has
\* decided on an item the documents, read now, would not give
C32_Witness ==
    /\ Resolved
    /\ clock > 0
    /\ active_item.kind = "item"
    /\ find_active_schedule_item(load_schedules(schedulesFile), load_schedule_items(itemsFile), now)
          # active_item

-----------------------------------------------------------------------------
(* A save followed by a load *)

\* a save has just ended without raising
SaveEnded == probe.fn = "save" /\ probe.step = "close"

-----------------------------------------------------------------------------
(* An update of an item that is answered with an error *)

\* C33: a step in which update_schedule_item answers with an error (400, 404
\* or 500) leaves the records of the item document as they were.
C33_FailedUpdateChangesNothing ==
    [][(probe'.fn = "update_schedule_item" /\ probe'.status # 200)
          => Stored(itemsFile') = Stored(itemsFile)]_vars

-----------------------------------------------------------------------------
(* Two requests at once.  The handlers take no lock: each is a sequence of  *)
(* loads and saves, a save is an open, the writing and the close, and the   *)
(* steps of two requests come in any order.  probe holds the two requests:  *)
(* the handler and what it was called with, the steps it has still to take, *)
(* its local lists, the file its save holds open, and its answer.  Two      *)
(* saves that hold the same document open at once are left out.             *)

raceFrame == <<now, scripts, pc, active_item, primary, fallback, trace, events, writer, clock>>

\* the store the two requests start on: one schedule, no item
RaceStore ==
    [schedules |-> ArrayDocument(<<[id |-> 0, name |-> <<"S">>, active |-> TRUE]>>),
     items |-> ArrayDocument(<<>>),
     backups |-> NoBackups]

RaceRequests ==
    { [fn |-> "create_schedule", schedule_id |-> 0, data |-> [name |-> <<"A">>]],
      [fn |-> "create_schedule", schedule_id |-> 0, data |-> [name |-> <<"B">>]],
      [fn |-> "delete_schedule", schedule_id |-> 0, data |-> [name |-> <<>>]],
      [fn |-> "create_schedule_item", schedule_id |-> 0,
       data |-> [board_name |-> <<"p">>, schedule_type |-> "absolute",
                 start_datetime |-> Iso(0, 0, ""), end_datetime |-> Iso(1, 0, "")]] }

\* the loads and saves of a handler, in the order of its code
Steps(fn) ==
    CASE fn = "create_schedule" -> <<"load_schedules", "save_schedules">>
      [] fn = "delete_schedule" -> <<"load_schedules", "load_schedule_items",
                                     "save_schedules", "save_schedule_items">>
      [] OTHER -> <<"load_schedules", "load_schedule_items", "save_schedule_items">>

\* a request that has not started; t is the clock it will read
Request(call, t) ==
    [fn |-> call.fn, schedule_id |-> call.schedule_id, data |-> call.data, t |-> t,
     todo |-> Steps(call.fn), schedules |-> <<>>, schedule_items |-> <<>>,
     handle |-> "none", status |-> 0]

\* the handler run from its first line to its last on a store
Handler(req, store) ==
    CASE req.fn = "create_schedule" -> create_schedule(req.data, store, req.t, GoodIo)
      [] req.fn = "delete_schedule" -> delete_schedule(req.schedule_id, store, GoodIo, GoodIo)
      [] OTHER -> create_schedule_item(req.schedule_id, req.data, store, req.t, GoodIo, GoodIo)

\* what the handler answers and saves, given the lists its loads returned
Outcome(req) ==
    Handler(req, [schedules |-> ArrayDocument(req.schedules),
                  items |-> ArrayDocument(req.schedule_items),
                  backups |-> NoBackups])

\* the collection the save at the head of the steps writes
Text(req) ==
    IF Head(req.todo) = "save_schedules"
    THEN JsonArray(Outcome(req).store.schedules.value)
    ELSE JsonArray(Outcome(req).store.items.value)

\* the request after a load: the handler returns at once when a test on the
\* lists loaded so far fails (400, 404)
AfterLoad(req) ==
    LET status == Outcome(req).status
    IN  IF status # 200
        THEN [req EXCEPT !.todo = <<>>, !.status = status]
        ELSE [req EXCEPT !.todo = Tail(@)]

\* the file a handle is open on receives the content: the document, or the
\* backup the document was renamed to while the handle was open
Put(step, handle, content) ==
    /\ schedulesFile' = IF step = "save_schedules" /\ handle = "document"
                        THEN content ELSE schedulesFile
    /\ itemsFile' = IF step = "save_schedule_items" /\ handle = "document"
                    THEN content ELSE itemsFile
    /\ backups' = IF handle # "backup" THEN backups
                  ELSE IF step = "save_schedules"
                       THEN [backups EXCEPT !.schedules = content]
                       ELSE [backups EXCEPT !.items = content]

\* the other request after a load of this one: a rename made by the load
\* takes the file the other holds open along
Renamed(other, file, step) ==
    IF file.kind = "malformed" /\ other.handle = "document" /\ Head(other.todo) = step
    THEN [other EXCEPT !.handle = "backup"]
    ELSE other

\* schedules = load_schedules() of a request
RaceLoadSchedules ==
    /\ \E r \in 1..2 :
          LET req == probe[r]
              l == bp_load_schedules(schedulesFile, backups.schedules, GoodIo)
          IN  /\ req.todo # <<>> /\ Head(req.todo) = "load_schedules"
              /\ probe' = [probe EXCEPT
                              ![r] = AfterLoad([req EXCEPT !.schedules = l.ret.value]),
                              ![3 - r] = Renamed(@, schedulesFile, "save_schedules")]
              /\ schedulesFile' = l.file
              /\ backups' = [backups EXCEPT !.schedules = l.backup]
    /\ UNCHANGED itemsFile
    /\ UNCHANGED raceFrame

\* schedule_items = load_schedule_items() of a request
RaceLoadScheduleItems ==
    /\ \E r \in 1..2 :
          LET req == probe[r]
              l == bp_load_schedule_items(itemsFile, backups.items, GoodIo)
          IN  /\ req.todo # <<>> /\ Head(req.todo) = "load_schedule_items"
              /\ probe' = [probe EXCEPT
                              ![r] = AfterLoad([req EXCEPT !.schedule_items = l.ret.value]),
                              ![3 - r] = Renamed(@, itemsFile, "save_schedule_items")]
              /\ itemsFile' = l.file
              /\ backups' = [backups EXCEPT !.items = l.backup]
    /\ UNCHANGED schedulesFile
    /\ UNCHANGED raceFrame

\* open(..., 'w') of the save a request has come to
RaceSaveOpen ==
    /\ \E r \in 1..2 :
          LET req == probe[r]
              other == probe[3 - r]
          IN  /\ req.todo # <<>> /\ Head(req.todo) \in {"save_schedules", "save_schedule_items"}
              /\ req.handle = "none"
              /\ ~(other.handle = "document" /\ Head(other.todo) = Head(req.todo))
              /\ probe' = [probe EXCEPT ![r].handle = "document"]
              /\ Put(Head(req.todo), "document", [kind |-> "blank"])
    /\ UNCHANGED raceFrame

\* json.dump has written a part of the text and the buffer was flushed
RaceSaveFlush ==
    /\ \E r \in 1..2 :
          LET req == probe[r]
          IN  /\ req.handle # "none"
              /\ Text(req).value # <<>>
              /\ Put(Head(req.todo), req.handle, Corrupt(TornText))
    /\ UNCHANGED probe
    /\ UNCHANGED raceFrame

\* the with block of the save ends; after its last save the handler answers
RaceSaveClose ==
    /\ \E r \in 1..2 :
          LET req == probe[r]
          IN  /\ req.handle # "none"
              /\ Put(Head(req.todo), req.handle, written([kind |-> "blank"], Text(req)))
              /\ probe' = [probe EXCEPT ![r] = [req EXCEPT !.handle = "none",
                                                          !.todo = Tail(@),
                                                          !.status = IF Tail(req.todo) = <<>>
                                                                     THEN 200 ELSE 0]]
    /\ UNCHANGED raceFrame

InitRace ==
    /\ probe \in {<<Request(a, 1), Request(b, 2)>> : a \in RaceRequests, b \in RaceRequests}
    /\ probe[1].fn # probe[2].fn \/ probe[1].data # probe[2].data
    /\ schedulesFile = RaceStore.schedules
    /\ itemsFile = RaceStore.items
    /\ backups = RaceStore.backups
    /\ now = At(0, 0, 0, 0)
    /\ writer = Idle
    /\ clock = 0
    /\ scripts = {}
    /\ pc = "idle"
    /\ active_item = [kind |-> "pending"]
    /\ primary = NoCall
    /\ fallback = NoFallback
    /\ trace = <<>>
    /\ events = <<>>

NextRace ==
    \/ RaceLoadSchedules
    \/ RaceLoadScheduleItems
    \/ RaceSaveOpen
    \/ RaceSaveFlush
    \/ RaceSaveClose

SpecRace == InitRace /\ [][NextRace]_vars

\* both requests have answered
BothAnswered == probe[1].todo = <<>> /\ probe[2].todo = <<>>

\* what a request that answered 200 has done is in the documents: the
\* schedule or the item it made is stored, unless the other request is the
\* delete_schedule that removes it; the schedule it deleted is not stored
EffectPresent(req, other) ==
    LET deleted == other.fn = "delete_schedule" /\ other.status = 200
    IN  CASE req.fn = "create_schedule" ->
                \/ \E i \in DOMAIN Stored(schedulesFile) :
                      /\ Stored(schedulesFile)[i].id = generate_id(req.t)
                      /\ Stored(schedulesFile)[i].name = strip(req.data.name)
                \/ deleted /\ other.schedule_id = generate_id(req.t)
          [] req.fn = "create_schedule_item" ->
                \/ \E i \in DOMAIN Stored(itemsFile) :
                      /\ Stored(itemsFile)[i].id = generate_id(req.t)
                      /\ Stored(itemsFile)[i].schedule_id = req.schedule_id
                \/ deleted /\ other.schedule_id = req.schedule_id
          [] OTHER ->
                \A i \in DOMAIN Stored(schedulesFile) :
                    Stored(schedulesFile)[i].id # req.schedule_id

\* C36: when two requests have both answered, what each request that
\* answered 200 has done is in the stored documents, no two stored schedules
\* have a name in common and every stored item belongs to a stored schedule.
C36_NoLostUpdate ==
    BothAnswered =>
        /\ probe[1].status = 200 => EffectPresent(probe[1], probe[2])
        /\ probe[2].status = 200 => EffectPresent(probe[2], probe[1])
        /\ \A i, j \in DOMAIN Stored(schedulesFile) :
              Stored(schedulesFile)[i].name = Stored(schedulesFile)[j].name => i = j
        /\ \A i \in DOMAIN Stored(itemsFile) :
              Stored(itemsFile)[i].schedule_id \in StoredScheduleIds

\* C37: a load of a request made while the save of the other request holds
\* the same document open changes neither the document nor its backup.
C37_LoadDuringSaveHarmless ==
    [][\A r \in 1..2 :
          /\ (/\ probe[r].todo # <<>> /\ Head(probe[r].todo) = "load_schedules"
              /\ probe'[r].todo # probe[r].todo
              /\ probe[3 - r].handle = "document"
              /\ Head(probe[3 - r].todo) = "save_schedules")
                => /\ schedulesFile' = schedulesFile
                   /\ backups' = backups
          /\ (/\ probe[r].todo # <<>> /\ Head(probe[r].todo) = "load_schedule_items"
              /\ probe'[r].todo # probe[r].todo
              /\ probe[3 - r].handle = "document"
              /\ Head(probe[3 - r].todo) = "save_schedule_items")
                => /\ itemsFile' = itemsFile
                   /\ backups' = backups]_vars

====
